---- MODULE Spec2Model ----
(***************************************************************************)
(* DA7280 haptic driver HAL (support/da7280_hal_1r0/da7280.c).             *)
(*                                                                         *)
(* The driver is a set of C functions over one static struct (haptic) and  *)
(* a register bus (i2c_register_read / i2c_register_write).  Every public  *)
(* function is one action: it runs the function body on a bus context      *)
(* (register file, log of the bus operations of this call, set of the      *)
(* operation indices at which the transport fails) and stores the result.  *)
(***************************************************************************)
EXTENDS Integers, Sequences, FiniteSets, TLC

VARIABLES
    regs,     \* the chip's register file, address -> byte
    haptic,   \* static struct da7280_haptic haptic
    user,     \* the USER_* platform definitions and build switches of the header
    call,     \* the last public function called, with its arguments
    ret,      \* its return value
    log,      \* the bus operations it issued, in order
    pre,      \* regs and haptic as they were when it was called
    snp_mem   \* the caller's snippet buffer (u8 *snp_mem)

vars == <<regs, haptic, user, call, ret, log, pre, snp_mem>>

----------------------------------------------------------------------------
(* Bounds of the model *)

\* at most this many bus operations of one call fail
MaxFaults == 2

\* a call of a memory function fails at bus operations up to this index
MaxMemFaultIdx == 4

\* a configuration call fails at bus operations up to this index, at most
\* MaxCfgFaults of them
MaxCfgOps == 20
MaxCfgFaults == 1
MaxScriptLen == 3
MaxBulk == 3

----------------------------------------------------------------------------
(* Constants of da7280_hal.h and da7280.h *)

EINVAL == 1
EIO == 2
EACCES == 13
EBUSY == 16
EOPNOTSUPP == 95

DA7280_IMAX_STEP == 7200
DA7280_MIN_RESONAT_FREQ == 50
DA7280_MAX_RESONAT_FREQ == 300
DA7280_IMPD_MAX == 50000
DA7280_IMPD_MIN == 4000
DA7280_IMAX_LIMIT == 252
DA7280_VOLT_RATE_MAX == 6000
DA7280_VOLT_STEP_uV == 23400
DA7280_NOM_VOLT_DFT == 107
DA7280_SNP_MEM_SIZE == 100
IRQ_NUM == 3

DA7280_LRA == 0
DA7280_ERM_BAR == 1
DA7280_ERM_COIN == 2
DA7280_DEV_MAX == 3

DA7280_INACTIVE_MODE == 0
DA7280_DRO_MODE == 1
DA7280_PWM_MODE == 2
DA7280_RTWM_MODE == 3
DA7280_ETWM_MODE == 4
DA7280_MODE_MAX == 5

DA7280_IRQ_EVENT1 == 3
DA7280_IRQ_EVENT_WARNING_DIAG == 4
DA7280_IRQ_EVENT_PAT_DIAG == 5
DA7280_IRQ_STATUS1 == 6
DA7280_FRQ_LRA_PER_H == 10
DA7280_FRQ_LRA_PER_L == 11
DA7280_ACTUATOR1 == 12
DA7280_ACTUATOR2 == 13
DA7280_ACTUATOR3 == 14
DA7280_CALIB_V2I_H == 15
DA7280_CALIB_V2I_L == 16
DA7280_TOP_CFG1 == 19
DA7280_TOP_CFG4 == 22
DA7280_TOP_INT_CFG1 == 23
DA7280_TOP_CTL1 == 34
DA7280_TOP_CTL2 == 35
DA7280_SEQ_CTL2 == 40
DA7280_GPI_0_CTL == 41
DA7280_GPI_1_CTL == 42
DA7280_GPI_2_CTL == 43
DA7280_MEM_CTL1 == 44
DA7280_MEM_CTL2 == 45
DA7280_SNP_MEM_0 == 132
DA7280_SNP_MEM_99 == 231
DA7280_SNP_MEM_MAX == DA7280_SNP_MEM_99

DA7280_E_PAT_FAULT_MASK == 16
DA7280_STA_WARNING_MASK == 32
DA7280_IMAX_MASK == 31
DA7280_AMP_PID_EN_SHIFT == 0
DA7280_RAPID_STOP_EN_SHIFT == 1
DA7280_ACCELERATION_EN_SHIFT == 2
DA7280_FREQ_TRACK_EN_SHIFT == 3
DA7280_BEMF_SENSE_EN_SHIFT == 4
DA7280_ACTUATOR_TYPE_SHIFT == 5
DA7280_AMP_PID_EN_MASK == 1
DA7280_RAPID_STOP_EN_MASK == 2
DA7280_ACCELERATION_EN_MASK == 4
DA7280_FREQ_TRACK_EN_MASK == 8
DA7280_BEMF_SENSE_EN_MASK == 16
DA7280_ACTUATOR_TYPE_MASK == 32
DA7280_TST_CALIB_IMPEDANCE_DIS_MASK == 64
DA7280_V2I_FACTOR_FREEZE_MASK == 128
DA7280_BEMF_FAULT_LIM_MASK == 3
DA7280_OPERATION_MODE_SHIFT == 0
DA7280_OPERATION_MODE_MASK == 7
DA7280_STANDBY_EN_MASK == 8
DA7280_SEQ_START_MASK == 16
DA7280_PS_SEQ_ID_SHIFT == 0
DA7280_PS_SEQ_LOOP_SHIFT == 4
DA7280_PS_SEQ_ID_MASK == 15
DA7280_PS_SEQ_LOOP_MASK == 240
USER_SEQ_ID_MAX == 15
USER_SEQ_LOOP_MAX == 15
DA7280_GPI0_POLARITY_SHIFT == 0
DA7280_GPI0_MODE_SHIFT == 2
DA7280_GPI0_SEQUENCE_ID_SHIFT == 3
DA7280_GPI0_POLARITY_MASK == 3
DA7280_GPI0_MODE_MASK == 4
DA7280_GPI0_SEQUENCE_ID_MASK == 120
DA7280_GPI_MOD_MAX == 2
DA7280_GPI_POL_MAX == 3
DA7280_PATTERN_MEM_LOCK_MASK == 128

----------------------------------------------------------------------------
(* C arithmetic on bytes *)

Byte == 0..255

\* conversion of an int to u8
U8(x) == x % 256

Pow2(n) == IF n = 0 THEN 1 ELSE IF n = 1 THEN 2 ELSE IF n = 2 THEN 4
           ELSE IF n = 3 THEN 8 ELSE IF n = 4 THEN 16 ELSE IF n = 5 THEN 32
           ELSE IF n = 6 THEN 64 ELSE 128

Bit(x, n) == (x \div Pow2(n)) % 2

\* a & b, a | b, ~a on u8
And8(a, b) ==
    Bit(a,0)*Bit(b,0) + 2*Bit(a,1)*Bit(b,1) + 4*Bit(a,2)*Bit(b,2)
    + 8*Bit(a,3)*Bit(b,3) + 16*Bit(a,4)*Bit(b,4) + 32*Bit(a,5)*Bit(b,5)
    + 64*Bit(a,6)*Bit(b,6) + 128*Bit(a,7)*Bit(b,7)

Not8(a) == 255 - a

Or8(a, b) == a + b - And8(a, b)

\* x << n truncated to u8
Shl8(x, n) == U8(x * Pow2(n))

\* a / b on int, b > 0: C truncates toward zero
CDiv(a, b) == IF a >= 0 THEN a \div b ELSE 0 - ((0 - a) \div b)

\* the low 16 bits of an int converted to u32
Low16(x) == x % 65536

----------------------------------------------------------------------------
(* Bus context: [regs, log, faults].  The n-th bus operation of a call      *)
(* fails when n is in faults.                                              *)

Ctx(r, f) == [regs |-> r, log |-> <<>>, faults |-> f]

Failing(b) == (Len(b.log) + 1) \in b.faults

\* the transport's error code: negative, as da7280_reg_read tests ret < 0
I2C_ERR == 0 - EIO

\* the chip behind i2c_register_write: the event registers are
\* write-1-to-clear, every other register stores the byte
i2c_register_write(r, reg, val) ==
    IF reg \in DA7280_IRQ_EVENT1..DA7280_IRQ_EVENT_PAT_DIAG
    THEN [r EXCEPT ![reg] = And8(r[reg], Not8(val))]
    ELSE [r EXCEPT ![reg] = val]

\* the chip behind i2c_register_read
i2c_register_read(r, reg) == r[reg]

\* int da7280_reg_read(u8 reg): the byte, or -EIO
da7280_reg_read(b, reg) ==
    LET fail == Failing(b)
        val  == i2c_register_read(b.regs, reg)
    IN  [b   |-> [b EXCEPT !.log = Append(@, [op |-> "r", reg |-> reg,
                                   val |-> IF fail THEN 0 ELSE val,
                                   ok |-> ~fail])],
         ret |-> IF fail THEN 0 - EIO ELSE val]

\* int da7280_reg_write(u8 reg, u8 val): 0, or the transport's error code
da7280_reg_write(b, reg, val) ==
    LET fail == Failing(b)
    IN  [b   |-> [regs   |-> IF fail THEN b.regs
                             ELSE i2c_register_write(b.regs, reg, val),
                  log    |-> Append(b.log, [op |-> "w", reg |-> reg,
                                            val |-> val, ok |-> ~fail]),
                  faults |-> b.faults],
         ret |-> IF fail THEN I2C_ERR ELSE 0]

\* C's sequencing: the statement's result r is computed once and the rest
\* of the function, K, goes on from it
Bind(r, K(_)) == CHOOSE out \in {K(x) : x \in {r}} : TRUE

\* int da7280_update_bits(u8 reg, u8 mask, u8 bits).  val is a u8, so the
\* test val < 0 is never true and val |= bits is not masked.
da7280_update_bits(b, reg, mask, bits) ==
    Bind(da7280_reg_read(b, reg), LAMBDA rd :
        LET val == U8(rd.ret)
        IN  IF val < 0 THEN [b |-> rd.b, ret |-> 0 - EIO]
            ELSE Bind(da7280_reg_write(rd.b, reg,
                          Or8(And8(val, Not8(mask)), bits)), LAMBDA wr :
                     IF wr.ret < 0 THEN [b |-> wr.b, ret |-> 0 - EIO]
                     ELSE [b |-> wr.b, ret |-> 0]))

\* the iterations lo <= i < hi of the loop of da7280_reg_bulk_write, in
\* order and up to the first write that fails.  data is the caller's
\* buffer; a byte read past its end is junk.
RECURSIVE BulkRange(_, _, _, _, _, _)
BulkRange(b, reg, data, junk, lo, hi) ==
    IF lo >= hi THEN [b |-> b, ret |-> 0]
    ELSE IF hi = lo + 1
    THEN Bind(da7280_reg_write(b, U8(reg + lo),
                  IF lo < Len(data) THEN data[lo + 1] ELSE junk), LAMBDA wr :
             IF wr.ret # 0 THEN [b |-> wr.b, ret |-> 0 - EIO]
             ELSE [b |-> wr.b, ret |-> 0])
    ELSE Bind(BulkRange(b, reg, data, junk, lo, (lo + hi) \div 2),
              LAMBDA first :
                 IF first.ret # 0 THEN first
                 ELSE BulkRange(first.b, reg, data, junk,
                                (lo + hi) \div 2, hi))

\* int da7280_reg_bulk_write(u8 reg, u8 *val, int val_count)
da7280_reg_bulk_write(b, reg, data, junk, val_count) ==
    BulkRange(b, reg, data, junk, 0, val_count)

----------------------------------------------------------------------------
(* The driver's functions.  Each takes the bus context b and the struct h   *)
(* and yields [b, h, ret].                                                 *)

Res(b, h, r) == [b |-> b, h |-> h, ret |-> r]

\* int da7280_set_seq_id(u8 seq_id)
da7280_set_seq_id(b, seq_id) ==
    IF seq_id > USER_SEQ_ID_MAX THEN [b |-> b, ret |-> 0 - EINVAL]
    ELSE da7280_update_bits(b, DA7280_SEQ_CTL2, DA7280_PS_SEQ_ID_MASK,
                            Shl8(seq_id, DA7280_PS_SEQ_ID_SHIFT))

\* int da7280_set_seq_loop(u8 seq_loop)
da7280_set_seq_loop(b, seq_loop) ==
    IF seq_loop > USER_SEQ_LOOP_MAX THEN [b |-> b, ret |-> 0 - EINVAL]
    ELSE da7280_update_bits(b, DA7280_SEQ_CTL2, DA7280_PS_SEQ_LOOP_MASK,
                            Shl8(seq_loop, DA7280_PS_SEQ_LOOP_SHIFT))

\* int da7280_set_override_val(u8 val): the first test compares a u8 with
\* 0xFF and never holds
da7280_set_override_val(b, h, val) ==
    IF val > 255 THEN [b |-> b, ret |-> 0 - EINVAL]
    ELSE LET mask == IF h.acc_en # 0 \/ h.dev_type = DA7280_LRA
                     THEN 127 ELSE 255
             lvl  == IF val > mask THEN mask ELSE val
         IN  da7280_reg_write(b, DA7280_TOP_CTL2, And8(lvl, mask))

\* int da7280_set_gpi_seq_id(u8 gpi_num, u8 val)
da7280_set_gpi_seq_id(b, gpi_num, val) ==
    IF val >= USER_SEQ_ID_MAX THEN [b |-> b, ret |-> 0 - EINVAL]
    ELSE da7280_update_bits(b, U8(DA7280_GPI_0_CTL + gpi_num),
                            DA7280_GPI0_SEQUENCE_ID_MASK,
                            Shl8(val, DA7280_GPI0_SEQUENCE_ID_SHIFT))

\* int da7280_set_gpi_mod(u8 gpi_num, u8 val)
da7280_set_gpi_mod(b, gpi_num, val) ==
    IF val >= DA7280_GPI_MOD_MAX THEN [b |-> b, ret |-> 0 - EINVAL]
    ELSE da7280_update_bits(b, U8(DA7280_GPI_0_CTL + gpi_num),
                            DA7280_GPI0_MODE_MASK,
                            Shl8(val, DA7280_GPI0_MODE_SHIFT))

\* int da7280_set_gpi_pol(u8 gpi_num, u8 val)
da7280_set_gpi_pol(b, gpi_num, val) ==
    IF val >= DA7280_GPI_POL_MAX THEN [b |-> b, ret |-> 0 - EINVAL]
    ELSE da7280_update_bits(b, U8(DA7280_GPI_0_CTL + gpi_num),
                            DA7280_GPI0_POLARITY_MASK,
                            Shl8(val, DA7280_GPI0_POLARITY_SHIFT))

\* int da7280_set_op_mode(enum da7280_op_mode mode)
da7280_set_op_mode(b, h, mode) ==
    IF mode >= DA7280_MODE_MAX \/ mode < 0
    THEN Res(b, h, 0 - EINVAL)
    ELSE Res(b, [h EXCEPT !.op_mode = mode], 0)

\* u8 da7280_get_op_mode(void)
da7280_get_op_mode(h) == h.op_mode

\* static u8 da7280_set_pwm(void): -EOPNOTSUPP as a u8 unless the build
\* defines DA7280_HAPTIC_PWM
da7280_set_pwm(u) == IF u.haptic_pwm THEN 0 ELSE U8(0 - EOPNOTSUPP)

\* static int da7280_pwm_disable(void)
da7280_pwm_disable == 0

\* da7280_haptic_enable setting SEQ_START in ETWM mode as well
da7280_haptic_enable_etwm_start(b, h, u) ==
    IF h.op_mode = DA7280_PWM_MODE /\ da7280_set_pwm(u) # 0
    THEN Res(b, h, da7280_set_pwm(u))
    ELSE Bind(da7280_update_bits(b, DA7280_TOP_CTL1,
                  DA7280_OPERATION_MODE_MASK,
                  Shl8(h.op_mode, DA7280_OPERATION_MODE_SHIFT)), LAMBDA m :
             IF m.ret # 0 THEN Res(m.b, h, m.ret)
             ELSE IF h.op_mode = DA7280_PWM_MODE
                     \/ h.op_mode = DA7280_RTWM_MODE
                     \/ h.op_mode = DA7280_ETWM_MODE
                  THEN Bind(da7280_update_bits(m.b, DA7280_TOP_CTL1,
                                DA7280_SEQ_START_MASK, DA7280_SEQ_START_MASK),
                            LAMBDA s : Res(s.b, h, s.ret))
             ELSE Res(m.b, h, 0))

\* int da7280_haptic_enable(void)
da7280_haptic_enable(b, h, u) ==
    IF h.op_mode = DA7280_PWM_MODE /\ da7280_set_pwm(u) # 0
    THEN Res(b, h, da7280_set_pwm(u))
    ELSE Bind(da7280_update_bits(b, DA7280_TOP_CTL1,
                  DA7280_OPERATION_MODE_MASK,
                  Shl8(h.op_mode, DA7280_OPERATION_MODE_SHIFT)), LAMBDA m :
             IF m.ret # 0 THEN Res(m.b, h, m.ret)
             ELSE IF h.op_mode = DA7280_PWM_MODE
                     \/ h.op_mode = DA7280_RTWM_MODE
                  THEN Bind(da7280_update_bits(m.b, DA7280_TOP_CTL1,
                                DA7280_SEQ_START_MASK, DA7280_SEQ_START_MASK),
                            LAMBDA s : Res(s.b, h, s.ret))
             ELSE Res(m.b, h, 0))

\* da7280_haptic_disable clearing SEQ_START instead of OPERATION_MODE
da7280_haptic_disable_seq_start(b, h) ==
    Bind(da7280_update_bits(b, DA7280_TOP_CTL1, DA7280_SEQ_START_MASK, 0),
         LAMBDA m : IF m.ret # 0 THEN Res(m.b, h, m.ret)
                    ELSE Res(m.b, h, 0))

\* int da7280_haptic_disable(void)
da7280_haptic_disable(b, h) ==
    Bind(da7280_update_bits(b, DA7280_TOP_CTL1,
             DA7280_OPERATION_MODE_MASK, 0), LAMBDA m :
        IF m.ret # 0 THEN Res(m.b, h, m.ret)
        ELSE IF h.op_mode = DA7280_PWM_MODE
             THEN Res(m.b, h, da7280_pwm_disable)
        ELSE Res(m.b, h, 0))

\* da7280_suspend without its test of the suspend flag
da7280_suspend_always(b, h) ==
    Bind(da7280_update_bits(b, DA7280_TOP_CTL1, DA7280_STANDBY_EN_MASK, 0),
         LAMBDA m : IF m.ret # 0 THEN Res(m.b, h, m.ret)
                    ELSE Res(m.b, [h EXCEPT !.suspend_state = 1], 0))

\* da7280_suspend clearing OPERATION_MODE together with STANDBY_EN
da7280_suspend_stops_drive(b, h) ==
    IF h.suspend_state # 0 THEN Res(b, h, 0)
    ELSE Bind(da7280_update_bits(b, DA7280_TOP_CTL1,
                  DA7280_STANDBY_EN_MASK + DA7280_OPERATION_MODE_MASK, 0),
              LAMBDA m :
             IF m.ret # 0 THEN Res(m.b, h, m.ret)
             ELSE Res(m.b, [h EXCEPT !.suspend_state = 1], 0))

\* da7280_suspend setting the flag before the update has gone through
da7280_suspend_flag_first(b, h) ==
    IF h.suspend_state # 0 THEN Res(b, h, 0)
    ELSE Bind(da7280_update_bits(b, DA7280_TOP_CTL1,
                  DA7280_STANDBY_EN_MASK, 0), LAMBDA m :
             Res(m.b, [h EXCEPT !.suspend_state = 1], m.ret))

\* int da7280_suspend(void)
da7280_suspend(b, h) ==
    IF h.suspend_state # 0 THEN Res(b, h, 0)
    ELSE Bind(da7280_update_bits(b, DA7280_TOP_CTL1,
                  DA7280_STANDBY_EN_MASK, 0), LAMBDA m :
             IF m.ret # 0 THEN Res(m.b, h, m.ret)
             ELSE Res(m.b, [h EXCEPT !.suspend_state = 1], 0))

\* int da7280_resume(void)
da7280_resume(b, h) ==
    IF h.suspend_state = 0 THEN Res(b, h, 0)
    ELSE Bind(da7280_update_bits(b, DA7280_TOP_CTL1,
                  DA7280_STANDBY_EN_MASK, DA7280_STANDBY_EN_MASK), LAMBDA m :
             IF m.ret # 0 THEN Res(m.b, h, m.ret)
             ELSE Res(m.b, [h EXCEPT !.suspend_state = 0], 0))

\* da7280_irq_handler clearing the events before it stops the drive
da7280_irq_handler_clear_first(b, h) ==
    Bind(da7280_reg_read(b, DA7280_IRQ_EVENT1), LAMBDA r0 :
    IF r0.ret < 0 THEN Res(r0.b, h, r0.ret) ELSE
    Bind(da7280_reg_read(r0.b, DA7280_IRQ_EVENT1 + 1), LAMBDA r1 :
    IF r1.ret < 0 THEN Res(r1.b, h, r1.ret) ELSE
    Bind(da7280_reg_read(r1.b, DA7280_IRQ_EVENT1 + 2), LAMBDA r2 :
    IF r2.ret < 0 THEN Res(r2.b, h, r2.ret) ELSE
    IF Or8(Or8(U8(r0.ret), U8(r1.ret)), U8(r2.ret)) = 0
    THEN Res(r2.b, h, 0) ELSE
    Bind(da7280_reg_write(r2.b, DA7280_IRQ_EVENT1, U8(r0.ret)), LAMBDA cl :
    IF cl.ret # 0 THEN Res(cl.b, h, cl.ret) ELSE
    IF And8(U8(r0.ret), DA7280_E_PAT_FAULT_MASK) # 0
    THEN Bind(da7280_update_bits(cl.b, DA7280_TOP_CTL1,
                  DA7280_OPERATION_MODE_MASK, 0),
              LAMBDA st : Res(st.b, h, st.ret))
    ELSE Res(cl.b, h, 0)))))

\* the rest of da7280_irq_handler once events[] is read and not empty: the
\* event-clear write after the stop, from bus context b
ClearEvents(b, h, events) ==
    Bind(da7280_reg_write(b, DA7280_IRQ_EVENT1, events[1]),
         LAMBDA cl : Res(cl.b, h, cl.ret))

\* da7280_irq_handler without the test of the second read
da7280_irq_handler_skip_check(b, h) ==
    Bind(da7280_reg_read(b, DA7280_IRQ_EVENT1), LAMBDA r0 :
    IF r0.ret < 0 THEN Res(r0.b, h, r0.ret) ELSE
    Bind(da7280_reg_read(r0.b, DA7280_IRQ_EVENT1 + 1), LAMBDA r1 :
    Bind(da7280_reg_read(r1.b, DA7280_IRQ_EVENT1 + 2), LAMBDA r2 :
    IF r2.ret < 0 THEN Res(r2.b, h, r2.ret) ELSE
    LET events == <<U8(r0.ret), U8(r1.ret), U8(r2.ret)>>
    IN  IF Or8(Or8(events[1], events[2]), events[3]) = 0
        THEN Res(r2.b, h, 0)
        ELSE IF And8(events[1], DA7280_E_PAT_FAULT_MASK) # 0
        THEN Bind(da7280_update_bits(r2.b, DA7280_TOP_CTL1,
                      DA7280_OPERATION_MODE_MASK, 0), LAMBDA st :
                 IF st.ret # 0 THEN Res(st.b, h, st.ret)
                 ELSE ClearEvents(st.b, h, events))
        ELSE ClearEvents(r2.b, h, events))))

\* int da7280_irq_handler(void)
da7280_irq_handler(b, h) ==
    Bind(da7280_reg_read(b, DA7280_IRQ_EVENT1), LAMBDA r0 :
    IF r0.ret < 0 THEN Res(r0.b, h, r0.ret) ELSE
    Bind(da7280_reg_read(r0.b, DA7280_IRQ_EVENT1 + 1), LAMBDA r1 :
    IF r1.ret < 0 THEN Res(r1.b, h, r1.ret) ELSE
    Bind(da7280_reg_read(r1.b, DA7280_IRQ_EVENT1 + 2), LAMBDA r2 :
    IF r2.ret < 0 THEN Res(r2.b, h, r2.ret) ELSE
    LET events == <<U8(r0.ret), U8(r1.ret), U8(r2.ret)>>
    IN  IF Or8(Or8(events[1], events[2]), events[3]) = 0
        THEN Res(r2.b, h, 0)
        ELSE IF And8(events[1], DA7280_E_PAT_FAULT_MASK) # 0
        THEN Bind(da7280_update_bits(r2.b, DA7280_TOP_CTL1,
                      DA7280_OPERATION_MODE_MASK, 0), LAMBDA st :
                 IF st.ret # 0 THEN Res(st.b, h, st.ret)
                 ELSE ClearEvents(st.b, h, events))
        ELSE ClearEvents(r2.b, h, events))))

\* da7280_haptic_mem_update testing the size after it has read the status
da7280_haptic_mem_update_late_check(b, data, junk, size) ==
    Bind(da7280_reg_read(b, DA7280_IRQ_STATUS1), LAMBDA st :
        IF st.ret < 0 THEN [b |-> st.b, ret |-> st.ret]
        ELSE IF And8(st.ret, DA7280_STA_WARNING_MASK) # 0
             THEN [b |-> st.b, ret |-> 0 - EBUSY]
        ELSE [b |-> st.b, ret |-> 0 - EINVAL])

\* da7280_haptic_mem_update testing the lock bit before the warning
da7280_haptic_mem_update_lock_first(b, data, junk, size) ==
    IF size > DA7280_SNP_MEM_SIZE THEN [b |-> b, ret |-> 0 - EINVAL] ELSE
    Bind(da7280_reg_read(b, DA7280_MEM_CTL2), LAMBDA lk :
    IF lk.ret < 0 THEN [b |-> lk.b, ret |-> lk.ret] ELSE
    IF And8(Not8(lk.ret), DA7280_PATTERN_MEM_LOCK_MASK) # 0
    THEN [b |-> lk.b, ret |-> 0 - EACCES] ELSE
    Bind(da7280_reg_read(lk.b, DA7280_IRQ_STATUS1), LAMBDA st :
    IF st.ret < 0 THEN [b |-> st.b, ret |-> st.ret] ELSE
    IF And8(st.ret, DA7280_STA_WARNING_MASK) # 0
    THEN [b |-> st.b, ret |-> 0 - EBUSY] ELSE
    Bind(da7280_reg_read(st.b, DA7280_MEM_CTL1), LAMBDA base :
    IF base.ret < 0 THEN [b |-> base.b, ret |-> base.ret] ELSE
    da7280_reg_bulk_write(base.b, base.ret, data, junk,
                          DA7280_SNP_MEM_MAX - base.ret + 1))))

\* da7280_haptic_mem_update stopping one byte before the end address
da7280_haptic_mem_update_short(b, data, junk, size) ==
    IF size > DA7280_SNP_MEM_SIZE THEN [b |-> b, ret |-> 0 - EINVAL] ELSE
    Bind(da7280_reg_read(b, DA7280_IRQ_STATUS1), LAMBDA st :
    IF st.ret < 0 THEN [b |-> st.b, ret |-> st.ret] ELSE
    IF And8(st.ret, DA7280_STA_WARNING_MASK) # 0
    THEN [b |-> st.b, ret |-> 0 - EBUSY] ELSE
    Bind(da7280_reg_read(st.b, DA7280_MEM_CTL2), LAMBDA lk :
    IF lk.ret < 0 THEN [b |-> lk.b, ret |-> lk.ret] ELSE
    IF And8(Not8(lk.ret), DA7280_PATTERN_MEM_LOCK_MASK) # 0
    THEN [b |-> lk.b, ret |-> 0 - EACCES] ELSE
    Bind(da7280_reg_read(lk.b, DA7280_MEM_CTL1), LAMBDA base :
    IF base.ret < 0 THEN [b |-> base.b, ret |-> base.ret] ELSE
    da7280_reg_bulk_write(base.b, base.ret, data, junk,
                          DA7280_SNP_MEM_MAX - base.ret))))

\* int da7280_haptic_mem_update(u8 *snp_mem, u8 size)
da7280_haptic_mem_update(b, data, junk, size) ==
    IF size > DA7280_SNP_MEM_SIZE THEN [b |-> b, ret |-> 0 - EINVAL] ELSE
    Bind(da7280_reg_read(b, DA7280_IRQ_STATUS1), LAMBDA st :
    IF st.ret < 0 THEN [b |-> st.b, ret |-> st.ret] ELSE
    IF And8(st.ret, DA7280_STA_WARNING_MASK) # 0
    THEN [b |-> st.b, ret |-> 0 - EBUSY] ELSE
    Bind(da7280_reg_read(st.b, DA7280_MEM_CTL2), LAMBDA lk :
    IF lk.ret < 0 THEN [b |-> lk.b, ret |-> lk.ret] ELSE
    IF And8(Not8(lk.ret), DA7280_PATTERN_MEM_LOCK_MASK) # 0
    THEN [b |-> lk.b, ret |-> 0 - EACCES] ELSE
    Bind(da7280_reg_read(lk.b, DA7280_MEM_CTL1), LAMBDA base :
    IF base.ret < 0 THEN [b |-> base.b, ret |-> base.ret] ELSE
    da7280_reg_bulk_write(base.b, base.ret, data, junk,
                          DA7280_SNP_MEM_MAX - base.ret + 1))))

\* the iterations lo <= i < hi of the loop of da7280_haptic_mem_read: the
\* loop tests val, the base address, instead of mem_val, so a failed read
\* stores (u8)mem_val and the loop goes on.  out is the bytes stored.
RECURSIVE ReadRange(_, _, _, _)
ReadRange(b, val, lo, hi) ==
    IF lo >= hi THEN [b |-> b, ret |-> 0, out |-> <<>>]
    ELSE IF hi = lo + 1
    THEN Bind(da7280_reg_read(b, U8(val + lo)), LAMBDA rd :
             IF val < 0 THEN [b |-> rd.b, ret |-> val, out |-> <<>>]
             ELSE [b |-> rd.b, ret |-> 0, out |-> <<And8(U8(rd.ret), 255)>>])
    ELSE Bind(ReadRange(b, val, lo, (lo + hi) \div 2), LAMBDA first :
             IF first.ret # 0 THEN first
             ELSE Bind(ReadRange(first.b, val, (lo + hi) \div 2, hi),
                       LAMBDA rest :
                          [b |-> rest.b, ret |-> rest.ret,
                           out |-> first.out \o rest.out]))

\* int da7280_haptic_mem_read(u8 *snp_mem, u8 size)
da7280_haptic_mem_read(b, size) ==
    IF size > DA7280_SNP_MEM_SIZE
    THEN [b |-> b, ret |-> 0 - EINVAL, out |-> <<>>]
    ELSE Bind(da7280_reg_read(b, DA7280_MEM_CTL1), LAMBDA base :
             IF base.ret < 0
             THEN [b |-> base.b, ret |-> base.ret, out |-> <<>>]
             ELSE ReadRange(base.b, base.ret, 0, size))

\* const struct scr_type da7280_pdata_setup[], without its SEQ_END entry
da7280_pdata_setup(u) ==
    << [reg |-> DA7280_IRQ_EVENT1, val |-> 255],
       [reg |-> DA7280_TOP_CTL2, val |-> u.overide_val],
       [reg |-> DA7280_SEQ_CTL2,
        val |-> Or8(Shl8(u.seq_loop, DA7280_PS_SEQ_LOOP_SHIFT),
                    Shl8(u.seq_id, DA7280_PS_SEQ_ID_SHIFT))],
       [reg |-> DA7280_GPI_0_CTL,
        val |-> Or8(Or8(Shl8(u.gpi[1].seq_id, DA7280_GPI0_SEQUENCE_ID_SHIFT),
                        Shl8(u.gpi[1].mod, DA7280_GPI0_MODE_SHIFT)),
                    Shl8(u.gpi[1].pol, DA7280_GPI0_POLARITY_SHIFT))],
       [reg |-> DA7280_GPI_1_CTL,
        val |-> Or8(Or8(Shl8(u.gpi[2].seq_id, DA7280_GPI0_SEQUENCE_ID_SHIFT),
                        Shl8(u.gpi[2].mod, DA7280_GPI0_MODE_SHIFT)),
                    Shl8(u.gpi[2].pol, DA7280_GPI0_POLARITY_SHIFT))],
       [reg |-> DA7280_GPI_2_CTL,
        val |-> Or8(Or8(Shl8(u.gpi[2].seq_id, DA7280_GPI0_SEQUENCE_ID_SHIFT),
                        Shl8(u.gpi[2].mod, DA7280_GPI0_MODE_SHIFT)),
                    Shl8(u.gpi[2].pol, DA7280_GPI0_POLARITY_SHIFT))] >>

\* the reg of a script step that sleeps instead of writing
DA7280_DELAY == 65534

\* the reg of the entry that ends a script
SEQ_END == 65535

\* static int da7280_run_script(const struct scr_type script[]), from step i
RECURSIVE ScriptFrom(_, _, _)
ScriptFrom(b, script, i) ==
    IF i > Len(script) \/ script[i].reg = SEQ_END THEN [b |-> b, ret |-> 0]
    ELSE IF script[i].reg = DA7280_DELAY THEN ScriptFrom(b, script, i + 1)
    ELSE Bind(da7280_reg_write(b, U8(script[i].reg), script[i].val),
              LAMBDA wr : IF wr.ret # 0 THEN [b |-> wr.b, ret |-> 0 - EIO]
                          ELSE ScriptFrom(wr.b, script, i + 1))

da7280_run_script(b, script) ==
    Bind(script, LAMBDA scr : ScriptFrom(b, scr, 1))

\* static int da7280_run_script_mask(const struct scr_mask_type script[]),
\* from step i
RECURSIVE MaskScriptFrom(_, _, _)
MaskScriptFrom(b, script, i) ==
    IF i > Len(script) \/ script[i].reg = SEQ_END THEN [b |-> b, ret |-> 0]
    ELSE IF script[i].reg = DA7280_DELAY
    THEN MaskScriptFrom(b, script, i + 1)
    ELSE Bind(da7280_update_bits(b, U8(script[i].reg), script[i].mask,
                  script[i].val),
              LAMBDA ub : IF ub.ret # 0 THEN [b |-> ub.b, ret |-> 0 - EIO]
                          ELSE MaskScriptFrom(ub.b, script, i + 1))

da7280_run_script_mask(b, script) ==
    Bind(script, LAMBDA scr : MaskScriptFrom(b, scr, 1))

\* da7280_set_resonant_freq taking the high byte from bit 8 instead of bit 7
da7280_set_resonant_freq_shift8(b, val) ==
    IF val > DA7280_MAX_RESONAT_FREQ \/ val < DA7280_MIN_RESONAT_FREQ
    THEN [b |-> b, ret |-> 0 - EINVAL]
    ELSE LET get_val == 1000000000 \div (val * 1333)
         IN  Bind(da7280_reg_write(b, DA7280_FRQ_LRA_PER_H,
                      (get_val \div 256) % 256), LAMBDA hi :
                 IF hi.ret # 0 THEN hi
                 ELSE da7280_reg_write(hi.b, DA7280_FRQ_LRA_PER_L,
                                       get_val % 128))

\* da7280_set_resonant_freq counting the period in steps of 1000 ns instead
\* of 1333 ns
da7280_set_resonant_freq_1000(b, val) ==
    IF val > DA7280_MAX_RESONAT_FREQ \/ val < DA7280_MIN_RESONAT_FREQ
    THEN [b |-> b, ret |-> 0 - EINVAL]
    ELSE LET get_val == 1000000000 \div (val * 1000)
         IN  Bind(da7280_reg_write(b, DA7280_FRQ_LRA_PER_H,
                      (get_val \div 128) % 256), LAMBDA hi :
                 IF hi.ret # 0 THEN hi
                 ELSE da7280_reg_write(hi.b, DA7280_FRQ_LRA_PER_L,
                                       get_val % 128))

\* int da7280_set_resonant_freq(u16 val)
da7280_set_resonant_freq(b, val) ==
    IF val > DA7280_MAX_RESONAT_FREQ \/ val < DA7280_MIN_RESONAT_FREQ
    THEN [b |-> b, ret |-> 0 - EINVAL]
    ELSE LET get_val == 1000000000 \div (val * 1333)
         IN  Bind(da7280_reg_write(b, DA7280_FRQ_LRA_PER_H,
                      (get_val \div 128) % 256), LAMBDA hi :
                 IF hi.ret # 0 THEN hi
                 ELSE da7280_reg_write(hi.b, DA7280_FRQ_LRA_PER_L,
                                       get_val % 128))

\* da7280_impd_check rejecting the two ends of the range
da7280_impd_check_strict(impd) ==
    IF impd >= DA7280_IMPD_MAX \/ impd <= DA7280_IMPD_MIN
    THEN 0 - EINVAL ELSE 0

\* int da7280_impd_check(int impd)
da7280_impd_check(impd) ==
    IF impd > DA7280_IMPD_MAX \/ impd < DA7280_IMPD_MIN THEN 0 - EINVAL ELSE 0

\* the current-limit code of da7280_set_imax before it is masked
ImaxCode(val) ==
    LET imax == CDiv(val * 1000 - 28600, DA7280_IMAX_STEP) + 1
    IN  IF imax > 31 THEN 31 ELSE imax

\* int da7280_set_imax(int val)
da7280_set_imax(b, u, val) ==
    IF val > DA7280_IMAX_LIMIT THEN [b |-> b, ret |-> 0 - EINVAL]
    ELSE LET imax == ImaxCode(val)
             v2i_factor ==
                 Low16(CDiv(u.impd_mOhm * 1000 * (imax + 4), 1610400))
         IN  Bind(da7280_update_bits(b, DA7280_ACTUATOR3, DA7280_IMAX_MASK,
                      And8(U8(imax), DA7280_IMAX_MASK)), LAMBDA ub :
                 IF ub.ret # 0 THEN ub
                 ELSE IF da7280_impd_check(u.impd_mOhm) # 0
                      THEN [b |-> ub.b,
                            ret |-> da7280_impd_check(u.impd_mOhm)]
                 ELSE Bind(da7280_reg_write(ub.b, DA7280_CALIB_V2I_L,
                               v2i_factor % 256), LAMBDA lo :
                          IF lo.ret # 0 THEN lo
                          ELSE da7280_reg_write(lo.b, DA7280_CALIB_V2I_H,
                                   (v2i_factor \div 256) % 256)))

\* da7280_set_volt_rating without the limit of 0xFF
da7280_set_volt_rating_noclamp(b, reg, val) ==
    LET v == IF val < DA7280_VOLT_RATE_MAX
             THEN (val * 1000) \div DA7280_VOLT_STEP_uV + 1
             ELSE DA7280_NOM_VOLT_DFT
    IN  da7280_reg_write(b, reg, v % 256)

\* int da7280_set_volt_rating(u8 reg, u32 val)
da7280_set_volt_rating(b, reg, val) ==
    LET v == IF val < DA7280_VOLT_RATE_MAX
             THEN (val * 1000) \div DA7280_VOLT_STEP_uV + 1
             ELSE DA7280_NOM_VOLT_DFT
        voltage == IF v > 255 THEN 255 ELSE v
    IN  da7280_reg_write(b, reg, voltage % 256)

\* the struct after da7280_set_user_data has copied the platform definitions
UserHaptic(h, u) ==
    [h EXCEPT !.dev_type = u.dev, !.op_mode = u.op_mode,
              !.bemf_sense_en = u.bemf_sense_en,
              !.freq_track_en = u.freq_track_en,
              !.acc_en = u.acc_en,
              !.rapid_stop_en = u.rapid_stop_en,
              !.amp_pid_en = u.amp_pid_en]

\* the switch of da7280_set_user_data with the ERM-coin case under the label
\* DA7280_ERM_BAR
DevTypeSetup_erm_bar(b, h, u) ==
    IF h.dev_type = DA7280_LRA
    THEN Bind(da7280_set_resonant_freq(b, u.freq_Hz),
              LAMBDA frq : Res(frq.b, h, frq.ret))
    ELSE IF h.dev_type = DA7280_ERM_BAR
    THEN Bind(da7280_update_bits(b, DA7280_TOP_INT_CFG1,
                  DA7280_BEMF_FAULT_LIM_MASK, 0), LAMBDA lim :
             IF lim.ret # 0 THEN Res(lim.b, h, lim.ret)
             ELSE Bind(da7280_update_bits(lim.b, DA7280_TOP_CFG4,
                           DA7280_TST_CALIB_IMPEDANCE_DIS_MASK
                               + DA7280_V2I_FACTOR_FREEZE_MASK,
                           DA7280_TST_CALIB_IMPEDANCE_DIS_MASK
                               + DA7280_V2I_FACTOR_FREEZE_MASK), LAMBDA cal :
                      IF cal.ret # 0 THEN Res(cal.b, h, cal.ret)
                      ELSE Res(cal.b, [h EXCEPT !.acc_en = 0,
                                                !.rapid_stop_en = 0,
                                                !.amp_pid_en = 0], 0)))
    ELSE Res(b, h, 0)

\* switch (haptic.dev_type) of da7280_set_user_data
DevTypeSetup(b, h, u) ==
    IF h.dev_type = DA7280_LRA
    THEN Bind(da7280_set_resonant_freq(b, u.freq_Hz),
              LAMBDA frq : Res(frq.b, h, frq.ret))
    ELSE IF h.dev_type = DA7280_ERM_COIN
    THEN Bind(da7280_update_bits(b, DA7280_TOP_INT_CFG1,
                  DA7280_BEMF_FAULT_LIM_MASK, 0), LAMBDA lim :
             IF lim.ret # 0 THEN Res(lim.b, h, lim.ret)
             ELSE Bind(da7280_update_bits(lim.b, DA7280_TOP_CFG4,
                           DA7280_TST_CALIB_IMPEDANCE_DIS_MASK
                               + DA7280_V2I_FACTOR_FREEZE_MASK,
                           DA7280_TST_CALIB_IMPEDANCE_DIS_MASK
                               + DA7280_V2I_FACTOR_FREEZE_MASK), LAMBDA cal :
                      IF cal.ret # 0 THEN Res(cal.b, h, cal.ret)
                      ELSE Res(cal.b, [h EXCEPT !.acc_en = 0,
                                                !.rapid_stop_en = 0,
                                                !.amp_pid_en = 0], 0)))
    ELSE Res(b, h, 0)

\* the byte da7280_set_user_data puts into TOP_CFG1
TopCfg1Val(h) ==
    LET B(x) == IF x # 0 THEN 1 ELSE 0
    IN  Or8(Or8(Or8(Shl8(B(h.dev_type), DA7280_ACTUATOR_TYPE_SHIFT),
                    Shl8(B(h.bemf_sense_en), DA7280_BEMF_SENSE_EN_SHIFT)),
                Or8(Shl8(B(h.freq_track_en), DA7280_FREQ_TRACK_EN_SHIFT),
                    Shl8(B(h.acc_en), DA7280_ACCELERATION_EN_SHIFT))),
            Or8(Shl8(B(h.rapid_stop_en), DA7280_RAPID_STOP_EN_SHIFT),
                Shl8(B(h.amp_pid_en), DA7280_AMP_PID_EN_SHIFT)))

TopCfg1Mask ==
    DA7280_ACTUATOR_TYPE_MASK + DA7280_BEMF_SENSE_EN_MASK
    + DA7280_FREQ_TRACK_EN_MASK + DA7280_ACCELERATION_EN_MASK
    + DA7280_RAPID_STOP_EN_MASK + DA7280_AMP_PID_EN_MASK

\* da7280_set_user_data from its write of TOP_CFG1 on
UserDataRegs(b, h, u) ==
    Bind(da7280_update_bits(b, DA7280_TOP_CFG1, TopCfg1Mask, TopCfg1Val(h)),
         LAMBDA top :
    IF top.ret # 0 THEN Res(top.b, h, top.ret) ELSE
    Bind(da7280_set_imax(top.b, u, u.imax_mA), LAMBDA imx :
    IF imx.ret # 0 THEN Res(imx.b, h, imx.ret) ELSE
    Bind(da7280_set_volt_rating(imx.b, DA7280_ACTUATOR1, u.nom_mV),
         LAMBDA nom :
    IF nom.ret # 0 THEN Res(nom.b, h, nom.ret) ELSE
    Bind(da7280_set_volt_rating(nom.b, DA7280_ACTUATOR2, u.abs_max_mV),
         LAMBDA abm :
    IF abm.ret # 0 THEN Res(abm.b, h, abm.ret) ELSE
    Bind(da7280_run_script(abm.b, da7280_pdata_setup(u)), LAMBDA scr :
    IF scr.ret # 0 THEN Res(scr.b, h, 0 - EINVAL)
    ELSE Res(scr.b, h, 0))))))

\* da7280_set_user_data without the test of haptic.op_mode
da7280_set_user_data_keeps_bemf(b, h, u) ==
    Bind(DevTypeSetup(b, UserHaptic(h, u), u), LAMBDA sw :
        IF sw.ret # 0 THEN sw
        ELSE UserDataRegs(sw.b, sw.h, u))

\* int da7280_set_user_data(void)
da7280_set_user_data(b, h, u) ==
    Bind(DevTypeSetup(b, UserHaptic(h, u), u), LAMBDA sw :
        IF sw.ret # 0 THEN sw
        ELSE IF sw.h.op_mode >= DA7280_RTWM_MODE
             THEN UserDataRegs(sw.b, [sw.h EXCEPT !.bemf_sense_en = 0], u)
        ELSE UserDataRegs(sw.b, sw.h, u))

\* int da7280_set_default(void)
da7280_set_default(b, h, u) == da7280_set_user_data(b, h, u)

\* da7280_init without haptic.suspend_state = 1 before it resumes
da7280_init_keeps_flag(b, h, u) ==
    Bind(da7280_set_user_data(b, h, u), LAMBDA cfg :
        IF cfg.ret # 0 THEN Res(cfg.b, cfg.h, 0 - EIO)
        ELSE Bind(da7280_resume(cfg.b, cfg.h), LAMBDA rsm :
                 IF rsm.ret # 0 THEN Res(rsm.b, rsm.h, 0 - EIO)
                 ELSE Res(rsm.b, rsm.h, 0)))

\* int da7280_init(void)
da7280_init(b, h, u) ==
    Bind(da7280_set_user_data(b, h, u), LAMBDA cfg :
        IF cfg.ret # 0 THEN Res(cfg.b, cfg.h, 0 - EIO)
        ELSE Bind(da7280_resume(cfg.b, [cfg.h EXCEPT !.suspend_state = 1]),
                  LAMBDA rsm :
                 IF rsm.ret # 0 THEN Res(rsm.b, rsm.h, 0 - EIO)
                 ELSE Res(rsm.b, rsm.h, 0)))

----------------------------------------------------------------------------
(* State after construction, and the actions *)

\* the platform definitions as da7280_hal.h ships them
HeaderUser ==
    [dev |-> DA7280_LRA, op_mode |-> DA7280_DRO_MODE,
     bemf_sense_en |-> 1, freq_track_en |-> 1, acc_en |-> 1,
     rapid_stop_en |-> 1, amp_pid_en |-> 0,
     nom_mV |-> 1200, abs_max_mV |-> 1400,
     freq_Hz |-> 180, imax_mA |-> 137, impd_mOhm |-> 10500,
     overide_val |-> 89, seq_id |-> 7, seq_loop |-> 3,
     gpi |-> <<[seq_id |-> 7, mod |-> 0, pol |-> 2],
               [seq_id |-> 7, mod |-> 0, pol |-> 2],
               [seq_id |-> 7, mod |-> 0, pol |-> 2]>>,
     haptic_pwm |-> FALSE]

\* static struct da7280_haptic haptic: zero-initialised
HapticZero ==
    [suspend_state |-> 0, dev_type |-> 0, op_mode |-> 0, bemf_sense_en |-> 0,
     freq_track_en |-> 0, acc_en |-> 0, rapid_stop_en |-> 0, amp_pid_en |-> 0]

RegsZero == [a \in Byte |-> 0]

NoCall == [name |-> "none", args |-> <<>>, faults |-> {}]

InitWith(r, u) ==
    /\ regs = r
    /\ haptic = HapticZero
    /\ user = u
    /\ call = NoCall
    /\ ret = 0
    /\ log = <<>>
    /\ pre = [regs |-> r, haptic |-> HapticZero]
    /\ snp_mem = <<>>

\* the sets of at most k indices among 1..n
RECURSIVE Plans(_, _)
Plans(n, k) ==
    IF k = 0 THEN {{}}
    ELSE LET P == Plans(n, k - 1)
         IN  P \cup {q \cup {i} : q \in P, i \in 1..n}

\* the fault plans of a call that issues at most n bus operations
FaultPlans(n) == Plans(n, MaxFaults)

\* the bus operations of a log that failed
Failed(l) == {i \in 1..Len(l) : ~l[i].ok}

\* a call of a public function took place with result res
Called(name, args, res) ==
    \E r \in {res} :
        /\ regs' = r.b.regs
        /\ haptic' = r.h
        /\ call' = [name |-> name, args |-> args, faults |-> Failed(r.b.log)]
        /\ ret' = r.ret
        /\ log' = r.b.log
        /\ pre' = [regs |-> regs, haptic |-> haptic]
        /\ UNCHANGED <<user, snp_mem>>

SetOpMode ==
    \E mode \in -1..DA7280_MODE_MAX :
        Called("set_op_mode", <<mode>>,
               da7280_set_op_mode(Ctx(regs, {}), haptic, mode))

HapticEnable ==
    \E f \in FaultPlans(4) :
        Called("haptic_enable", <<>>,
               da7280_haptic_enable(Ctx(regs, f), haptic, user))

HapticDisable ==
    \E f \in FaultPlans(2) :
        Called("haptic_disable", <<>>,
               da7280_haptic_disable(Ctx(regs, f), haptic))

Suspend ==
    \E f \in FaultPlans(2) :
        Called("suspend", <<>>, da7280_suspend(Ctx(regs, f), haptic))

Resume ==
    \E f \in FaultPlans(2) :
        Called("resume", <<>>, da7280_resume(Ctx(regs, f), haptic))

IrqHandler ==
    \E f \in FaultPlans(6) :
        Called("irq_handler", <<>>, da7280_irq_handler(Ctx(regs, f), haptic))

\* the event bytes the chip raises in IRQ_EVENT1, IRQ_EVENT_WARNING_DIAG,
\* IRQ_EVENT_PAT_DIAG
EventBytes == {<<0, 0, 0>>, <<4, 0, 0>>, <<16, 0, 1>>, <<20, 0, 1>>,
               <<32, 2, 0>>, <<0, 0, 1>>}

\* the chip raises events: the event registers take new values
ChipEvent ==
    /\ \E e \in EventBytes :
          regs' = [regs EXCEPT ![DA7280_IRQ_EVENT1] = e[1],
                               ![DA7280_IRQ_EVENT_WARNING_DIAG] = e[2],
                               ![DA7280_IRQ_EVENT_PAT_DIAG] = e[3]]
    /\ call' = [name |-> "chip_event", args |-> <<>>, faults |-> {}]
    /\ ret' = 0
    /\ log' = <<>>
    /\ pre' = [regs |-> regs, haptic |-> haptic]
    /\ UNCHANGED <<haptic, user, snp_mem>>

\* the mode state machine: selection, activation, standby
ModeInit ==
    \E pwm \in BOOLEAN :
        InitWith(RegsZero, [HeaderUser EXCEPT !.haptic_pwm = pwm])

ModeNext ==
    \/ SetOpMode
    \/ HapticEnable
    \/ HapticDisable
    \/ Suspend
    \/ Resume

ModeSpec == ModeInit /\ [][ModeNext]_vars

\* the event handler with the chip raising events while a mode is driven
IrqInit == InitWith(RegsZero, HeaderUser)

IrqNext ==
    \/ SetOpMode
    \/ HapticEnable
    \/ HapticDisable
    \/ ChipEvent
    \/ IrqHandler

IrqSpec == IrqInit /\ [][IrqNext]_vars

\* the buffers a caller uploads: n bytes of a pattern
Buffers(n) == {[i \in 1..n |-> U8(seed + i)] : seed \in {16, 160}}

\* da7280_haptic_mem_update is called with a size of sizes
MemUpdateWith(sizes) ==
    \E size \in sizes, junk \in {0, 170}, f \in FaultPlans(MaxMemFaultIdx) :
        \E data \in Buffers(size) :
            \E u \in {da7280_haptic_mem_update(Ctx(regs, f), data, junk,
                                                 size)} :
                /\ regs' = u.b.regs
                /\ call' = [name |-> "haptic_mem_update", args |-> <<size>>,
                            faults |-> Failed(u.b.log)]
                /\ ret' = u.ret
                /\ log' = u.b.log
                /\ pre' = [regs |-> regs, haptic |-> haptic]
                /\ snp_mem' = data
                /\ UNCHANGED <<haptic, user>>

\* the base addresses the chip's MEM_CTL1 holds
MemBases == {DA7280_SNP_MEM_0, 228, DA7280_SNP_MEM_99, 232}

\* the size check of the upload: one call with any size above the capacity,
\* or a size within it, on a chip in any status
MemUpdateAnySize ==
    /\ call = NoCall
    /\ MemUpdateWith({0, 1, 4, DA7280_SNP_MEM_SIZE}
                     \cup (DA7280_SNP_MEM_SIZE + 1)..255)

MemSizeInit ==
    \E base \in MemBases, w \in {0, DA7280_STA_WARNING_MASK},
       l \in {0, DA7280_PATTERN_MEM_LOCK_MASK} :
        InitWith([RegsZero EXCEPT ![DA7280_MEM_CTL1] = base,
                                  ![DA7280_IRQ_STATUS1] = w,
                                  ![DA7280_MEM_CTL2] = l], HeaderUser)

MemSizeNext == MemUpdateAnySize

MemSizeSpec == MemSizeInit /\ [][MemSizeNext]_vars

\* configuration: one configuration call after construction, for the
\* platform definitions of CfgUsers
CfgUsers ==
    {[HeaderUser EXCEPT !.dev = d, !.imax_mA = i, !.impd_mOhm = z,
                        !.freq_Hz = fr] :
        d \in {DA7280_LRA, DA7280_ERM_BAR, DA7280_ERM_COIN},
        i \in {137, DA7280_IMAX_LIMIT, DA7280_IMAX_LIMIT + 1},
        z \in {DA7280_IMPD_MIN - 1, DA7280_IMPD_MIN, 10500, DA7280_IMPD_MAX,
               DA7280_IMPD_MAX + 1},
        fr \in {DA7280_MIN_RESONAT_FREQ - 1, DA7280_MIN_RESONAT_FREQ, 180,
                DA7280_MAX_RESONAT_FREQ, DA7280_MAX_RESONAT_FREQ + 1}}

\* the fault plans of a configuration call
CfgFaultPlans == Plans(MaxCfgOps, MaxCfgFaults)

DoInit ==
    /\ call = NoCall
    /\ \E f \in CfgFaultPlans :
          Called("init", <<>>, da7280_init(Ctx(regs, f), haptic, user))

SetUserData ==
    /\ call = NoCall
    /\ \E f \in CfgFaultPlans :
          Called("set_user_data", <<>>,
                 da7280_set_user_data(Ctx(regs, f), haptic, user))

SetDefault ==
    /\ call = NoCall
    /\ \E f \in CfgFaultPlans :
          Called("set_default", <<>>,
                 da7280_set_default(Ctx(regs, f), haptic, user))

CfgInit == \E u \in CfgUsers : InitWith(RegsZero, u)

CfgNext ==
    \/ DoInit
    \/ SetUserData
    \/ SetDefault

CfgSpec == CfgInit /\ [][CfgNext]_vars

\* the register access layer on its own: one da7280_update_bits call on a
\* register holding any byte
UpdateBits ==
    /\ call = NoCall
    /\ \E reg \in {DA7280_TOP_CFG1, DA7280_SEQ_CTL2},
          mask \in {7, 8, 15, 16, 63, 240},
          bits \in {0, 1, 3, 8, 16, 53, 112, 255},
          f \in FaultPlans(2) :
           \E u \in {da7280_update_bits(Ctx(regs, f), reg, mask, bits)} :
               Called("update_bits", <<reg, mask, bits>>,
                      Res(u.b, haptic, u.ret))

RegInit ==
    \E old \in Byte :
        InitWith([RegsZero EXCEPT ![DA7280_TOP_CFG1] = old,
                                  ![DA7280_SEQ_CTL2] = Not8(old)],
                 HeaderUser)

RegNext == UpdateBits

RegSpec == RegInit /\ [][RegNext]_vars

\* the sequences of at most n elements of S
RECURSIVE SeqsUpTo(_, _)
SeqsUpTo(S, n) ==
    IF n = 0 THEN {<<>>}
    ELSE LET P == SeqsUpTo(S, n - 1)
         IN  P \cup {Append(q, e) : q \in P, e \in S}

\* the entries of the scripts run: two register steps, a delay, the end entry
ScriptSteps ==
    {[reg |-> DA7280_TOP_CTL2, val |-> 89],
     [reg |-> DA7280_SEQ_CTL2, val |-> 55],
     [reg |-> DA7280_DELAY, val |-> 5],
     [reg |-> SEQ_END, val |-> 0]}

MaskScriptSteps ==
    {[reg |-> DA7280_TOP_CFG1, mask |-> 7, val |-> 5],
     [reg |-> DA7280_TOP_CTL1, mask |-> 16, val |-> 16],
     [reg |-> DA7280_DELAY, mask |-> 0, val |-> 5],
     [reg |-> SEQ_END, mask |-> 0, val |-> 0]}

RunScript ==
    /\ call = NoCall
    /\ \E script \in SeqsUpTo(ScriptSteps, MaxScriptLen),
          f \in FaultPlans(MaxScriptLen) :
           \E u \in {da7280_run_script(Ctx(regs, f), script)} :
               Called("run_script", <<script>>, Res(u.b, haptic, u.ret))

RunScriptMask ==
    /\ call = NoCall
    /\ \E script \in SeqsUpTo(MaskScriptSteps, MaxScriptLen),
          f \in FaultPlans(2 * MaxScriptLen) :
           \E u \in {da7280_run_script_mask(Ctx(regs, f), script)} :
               Called("run_script_mask", <<script>>, Res(u.b, haptic, u.ret))

RegBulkWrite ==
    /\ call = NoCall
    /\ \E reg \in {DA7280_SNP_MEM_0, 229}, n \in 0..MaxBulk,
          f \in FaultPlans(MaxBulk) :
           \E data \in Buffers(n) :
               \E u \in {da7280_reg_bulk_write(Ctx(regs, f), reg, data, 0, n)} :
                   Called("reg_bulk_write", <<reg, data, n>>,
                          Res(u.b, haptic, u.ret))

\* the scripted-sequence runners and the bulk write, one call each
ScriptInit ==
    \E old \in {0, 255} :
        InitWith([RegsZero EXCEPT ![DA7280_TOP_CFG1] = old,
                                  ![DA7280_TOP_CTL1] = old], HeaderUser)

ScriptNext ==
    \/ RunScript
    \/ RunScriptMask
    \/ RegBulkWrite

ScriptSpec == ScriptInit /\ [][ScriptNext]_vars

\* the derivation functions on their own, one call each: every current up to
\* one above the ceiling, every frequency from one below to one above the
\* range, every voltage up to one above DA7280_VOLT_RATE_MAX
SetImax ==
    /\ call = NoCall
    /\ \E val \in 0..(DA7280_IMAX_LIMIT + 1), f \in FaultPlans(4) :
           \E u \in {da7280_set_imax(Ctx(regs, f), user, val)} :
               Called("set_imax", <<val>>, Res(u.b, haptic, u.ret))

SetResonantFreq ==
    /\ call = NoCall
    /\ \E val \in (DA7280_MIN_RESONAT_FREQ - 1)..(DA7280_MAX_RESONAT_FREQ + 1),
          f \in FaultPlans(2) :
           \E u \in {da7280_set_resonant_freq(Ctx(regs, f), val)} :
               Called("set_resonant_freq", <<val>>, Res(u.b, haptic, u.ret))

SetVoltRating ==
    /\ call = NoCall
    /\ \E reg \in {DA7280_ACTUATOR1, DA7280_ACTUATOR2},
          val \in 0..(DA7280_VOLT_RATE_MAX + 1), f \in FaultPlans(1) :
           \E u \in {da7280_set_volt_rating(Ctx(regs, f), reg, val)} :
               Called("set_volt_rating", <<reg, val>>,
                      Res(u.b, haptic, u.ret))

CalcInit ==
    \E z \in {DA7280_IMPD_MIN, 10500, DA7280_IMPD_MAX}, old \in {0, 224} :
        InitWith([RegsZero EXCEPT ![DA7280_ACTUATOR3] = old],
                 [HeaderUser EXCEPT !.impd_mOhm = z])

CalcNext ==
    \/ SetImax
    \/ SetResonantFreq
    \/ SetVoltRating

CalcSpec == CalcInit /\ [][CalcNext]_vars

----------------------------------------------------------------------------
(* Upload of the pattern memory and reading it back.                       *)

\* the sizes of the buffers uploaded and read back
MemSizes == {0, 1, 4, DA7280_SNP_MEM_SIZE}

\* da7280_haptic_mem_update, as the first call
MemUpdate ==
    /\ call = NoCall
    /\ MemUpdateWith(MemSizes)

\* da7280_haptic_mem_read into the caller's buffer, as the first call or
\* after an upload
MemRead ==
    /\ call.name # "haptic_mem_read"
    /\ \E size \in MemSizes \cup {DA7280_SNP_MEM_SIZE + 1},
          f \in FaultPlans(MaxMemFaultIdx) :
           \E u \in {da7280_haptic_mem_read(Ctx(regs, f), size)} :
               /\ regs' = u.b.regs
               /\ call' = [name |-> "haptic_mem_read", args |-> <<size>>,
                           faults |-> Failed(u.b.log)]
               /\ ret' = u.ret
               /\ log' = u.b.log
               /\ pre' = [regs |-> regs, haptic |-> haptic]
               /\ snp_mem' = u.out
               /\ UNCHANGED <<haptic, user>>

\* a chip with the memory unlocked, with or without a warning, whose base
\* address is the start of the snippet memory or four bytes before its end
MemInit ==
    \E base \in {DA7280_SNP_MEM_0, 228}, w \in {0, DA7280_STA_WARNING_MASK} :
        InitWith([RegsZero EXCEPT ![DA7280_MEM_CTL1] = base,
                                  ![DA7280_IRQ_STATUS1] = w,
                                  ![DA7280_MEM_CTL2] =
                                      DA7280_PATTERN_MEM_LOCK_MASK],
                 HeaderUser)

MemNext ==
    \/ MemUpdate
    \/ MemRead

MemSpec == MemInit /\ [][MemNext]_vars

----------------------------------------------------------------------------
(* Selection of the sequence: da7280_set_seq_id and da7280_set_seq_loop.    *)

\* the u8 arguments tried: the 4-bit range, the two values above it and the
\* largest byte
SeqArgs == 0..(USER_SEQ_ID_MAX + 2) \cup {255}

SetSeqId ==
    /\ call.name # "set_seq_id"
    /\ \E seq_id \in SeqArgs, f \in FaultPlans(2) :
           \E u \in {da7280_set_seq_id(Ctx(regs, f), seq_id)} :
               Called("set_seq_id", <<seq_id>>, Res(u.b, haptic, u.ret))

SetSeqLoop ==
    /\ call = NoCall
    /\ \E seq_loop \in SeqArgs, f \in FaultPlans(2) :
           \E u \in {da7280_set_seq_loop(Ctx(regs, f), seq_loop)} :
               Called("set_seq_loop", <<seq_loop>>, Res(u.b, haptic, u.ret))

\* SEQ_CTL2 holds the reset value, the header's selection (loop 3, id 7) or
\* all ones
SeqInit ==
    \E old \in {0, 55, 255} :
        InitWith([RegsZero EXCEPT ![DA7280_SEQ_CTL2] = old], HeaderUser)

SeqNext ==
    \/ SetSeqId
    \/ SetSeqLoop

SeqSpec == SeqInit /\ [][SeqNext]_vars

----------------------------------------------------------------------------
(* The life of the driver: configuration, then activation and standby.     *)

\* a configuration call on a bus without fault
Configure ==
    \/ Called("init", <<>>, da7280_init(Ctx(regs, {}), haptic, user))
    \/ Called("set_user_data", <<>>,
              da7280_set_user_data(Ctx(regs, {}), haptic, user))
    \/ Called("set_default", <<>>,
              da7280_set_default(Ctx(regs, {}), haptic, user))

LifeInit == InitWith(RegsZero, HeaderUser)

LifeNext ==
    \/ Configure
    \/ HapticEnable
    \/ HapticDisable
    \/ Suspend
    \/ Resume

LifeSpec == LifeInit /\ [][LifeNext]_vars

----------------------------------------------------------------------------
(* The trigger inputs and the override level: the configuration call, then  *)
(* one setter, or one setter on the chip as it was found.                  *)

\* platform definitions whose three GPI entries differ, for the LRA and the
\* ERM bar, with and without acceleration
GpiUsers ==
    {[HeaderUser EXCEPT !.dev = d, !.acc_en = ac, !.gpi = g] :
        d \in {DA7280_LRA, DA7280_ERM_BAR}, ac \in {0, 1},
        g \in {<<[seq_id |-> 7, mod |-> 0, pol |-> 2],
                 [seq_id |-> 3, mod |-> 1, pol |-> 0],
                 [seq_id |-> 12, mod |-> 0, pol |-> 1]>>,
               <<[seq_id |-> 12, mod |-> 0, pol |-> 1],
                 [seq_id |-> 7, mod |-> 0, pol |-> 2],
                 [seq_id |-> 7, mod |-> 0, pol |-> 2]>>}}

SetGpiSeqId ==
    /\ call.name \in {"none", "set_user_data"}
    /\ \E gpi_num \in 0..4, val \in {0, 9, 14, 15, 16, 255},
          f \in FaultPlans(2) :
           \E u \in {da7280_set_gpi_seq_id(Ctx(regs, f), gpi_num, val)} :
               Called("set_gpi_seq_id", <<gpi_num, val>>,
                      Res(u.b, haptic, u.ret))

SetGpiMod ==
    /\ call.name \in {"none", "set_user_data"}
    /\ \E gpi_num \in 0..4, val \in 0..DA7280_GPI_MOD_MAX,
          f \in FaultPlans(2) :
           \E u \in {da7280_set_gpi_mod(Ctx(regs, f), gpi_num, val)} :
               Called("set_gpi_mod", <<gpi_num, val>>,
                      Res(u.b, haptic, u.ret))

SetGpiPol ==
    /\ call.name \in {"none", "set_user_data"}
    /\ \E gpi_num \in 0..4, val \in 0..DA7280_GPI_POL_MAX,
          f \in FaultPlans(2) :
           \E u \in {da7280_set_gpi_pol(Ctx(regs, f), gpi_num, val)} :
               Called("set_gpi_pol", <<gpi_num, val>>,
                      Res(u.b, haptic, u.ret))

SetOverrideVal ==
    /\ call.name \in {"none", "set_user_data"}
    /\ \E val \in {0, 89, 127, 128, 200, 255}, f \in FaultPlans(1) :
           \E u \in {da7280_set_override_val(Ctx(regs, f), haptic, val)} :
               Called("set_override_val", <<val>>, Res(u.b, haptic, u.ret))

\* the GPI control registers and the two registers after them hold all
\* zeros or all ones
GpiInit ==
    \E u \in GpiUsers, x \in {0, 255} :
        InitWith([a \in Byte |->
                     IF a \in DA7280_GPI_0_CTL..DA7280_MEM_CTL2 THEN x
                     ELSE 0], u)

GpiNext ==
    \/ SetUserData
    \/ SetGpiSeqId
    \/ SetGpiMod
    \/ SetGpiPol
    \/ SetOverrideVal

GpiSpec == GpiInit /\ [][GpiNext]_vars

----------------------------------------------------------------------------
(* The interrupt handler against a read-modify-write of TOP_CTL1.  The      *)
(* driver takes no lock and masks no interrupt, so da7280_irq_handler can  *)
(* run between the read and the write of da7280_update_bits.  While the    *)
(* update is in flight, call is [name |-> "update_bits", args |-> <<the    *)
(* caller, mask, bits, the byte read>>].                                   *)

\* da7280_suspend, da7280_resume or da7280_haptic_disable enters
\* da7280_update_bits and reads TOP_CTL1
BeginUpdate ==
    /\ call = NoCall
    /\ \E op \in {"suspend", "resume", "haptic_disable"} :
          /\ op = "suspend" => haptic.suspend_state = 0
          /\ op = "resume" => haptic.suspend_state # 0
          /\ \E rd \in {da7280_reg_read(Ctx(regs, {}), DA7280_TOP_CTL1)} :
                /\ call' = [name |-> "update_bits",
                            args |-> <<op,
                                       IF op = "haptic_disable"
                                       THEN DA7280_OPERATION_MODE_MASK
                                       ELSE DA7280_STANDBY_EN_MASK,
                                       IF op = "resume"
                                       THEN DA7280_STANDBY_EN_MASK ELSE 0,
                                       U8(rd.ret)>>,
                            faults |-> {}]
                /\ log' = rd.b.log
    /\ pre' = [regs |-> regs, haptic |-> haptic]
    /\ UNCHANGED <<regs, haptic, user, ret, snp_mem>>

\* the interrupt arrives while the update is between its read and its write
IrqPreempts ==
    /\ call.name = "update_bits"
    /\ Len(log) = 1
    /\ \E irq \in {da7280_irq_handler(Ctx(regs, {}), haptic)} :
          /\ regs' = irq.b.regs
          /\ log' = log \o irq.b.log
    /\ UNCHANGED <<haptic, user, call, ret, pre, snp_mem>>

\* da7280_update_bits writes the byte it made from the one it read, and the
\* caller finishes
EndUpdate ==
    /\ call.name = "update_bits"
    /\ \E wr \in {da7280_reg_write([regs |-> regs, log |-> log,
                                    faults |-> {}], DA7280_TOP_CTL1,
                      Or8(And8(call.args[4], Not8(call.args[2])),
                          call.args[3]))} :
          /\ regs' = wr.b.regs
          /\ log' = wr.b.log
          /\ ret' = wr.ret
    /\ haptic' = IF call.args[1] = "suspend"
                 THEN [haptic EXCEPT !.suspend_state = 1]
                 ELSE IF call.args[1] = "resume"
                 THEN [haptic EXCEPT !.suspend_state = 0]
                 ELSE haptic
    /\ call' = [name |-> call.args[1], args |-> <<>>, faults |-> {}]
    /\ UNCHANGED <<user, pre, snp_mem>>

\* the chip in any mode, in or out of standby, with or without a pattern
\* fault and a sequence-done event pending; the driver suspended or not
RaceInit ==
    \E mode \in DA7280_INACTIVE_MODE..DA7280_ETWM_MODE,
       stby \in {0, DA7280_STANDBY_EN_MASK},
       ev \in {0, 4, DA7280_E_PAT_FAULT_MASK, DA7280_E_PAT_FAULT_MASK + 4},
       ss \in {0, 1} :
        /\ regs = [RegsZero EXCEPT ![DA7280_TOP_CTL1] = mode + stby,
                                   ![DA7280_IRQ_EVENT1] = ev]
        /\ haptic = [HapticZero EXCEPT !.suspend_state = ss,
                                       !.op_mode = mode]
        /\ user = HeaderUser
        /\ call = NoCall
        /\ ret = 0
        /\ log = <<>>
        /\ pre = [regs |-> regs, haptic |-> haptic]
        /\ snp_mem = <<>>

RaceNext ==
    \/ BeginUpdate
    \/ IrqPreempts
    \/ EndUpdate

RaceSpec == RaceInit /\ [][RaceNext]_vars

----------------------------------------------------------------------------
(* The flags of TOP_CFG1: every device type, operation mode and requested  *)
(* enable bit, on a chip whose three registers hold zeros or ones.         *)

\* platform definitions that differ in USER_HAPTIC_DEV, USER_OP_MODE and the
\* four enable flags
FlagUsers ==
    {[HeaderUser EXCEPT !.dev = d, !.op_mode = m, !.bemf_sense_en = be,
                        !.acc_en = ac, !.rapid_stop_en = rs,
                        !.amp_pid_en = pid] :
        d \in {DA7280_LRA, DA7280_ERM_BAR, DA7280_ERM_COIN},
        m \in DA7280_INACTIVE_MODE..DA7280_ETWM_MODE,
        be \in {0, 1}, ac \in {0, 1}, rs \in {0, 1}, pid \in {0, 1}}

\* the register file with TOP_CFG1, TOP_CFG4 and TOP_INT_CFG1 all x
FlagRegs(x) ==
    [RegsZero EXCEPT ![DA7280_TOP_CFG1] = x, ![DA7280_TOP_CFG4] = x,
                     ![DA7280_TOP_INT_CFG1] = x]

FlagInit == \E u \in FlagUsers, x \in {0, 255} : InitWith(FlagRegs(x), u)

FlagNext ==
    \/ DoInit
    \/ SetUserData
    \/ SetDefault

FlagSpec == FlagInit /\ [][FlagNext]_vars

----------------------------------------------------------------------------
(* Reading the state and the log *)

\* the fields of TOP_CTL1
OpField(r) == And8(r[DA7280_TOP_CTL1], DA7280_OPERATION_MODE_MASK)
StandbyBit(r) == And8(r[DA7280_TOP_CTL1], DA7280_STANDBY_EN_MASK)
SeqStartBit(r) == And8(r[DA7280_TOP_CTL1], DA7280_SEQ_START_MASK)
OtherTopCtl1(r) == And8(r[DA7280_TOP_CTL1], Not8(DA7280_OPERATION_MODE_MASK))

ActiveModes == {DA7280_DRO_MODE, DA7280_PWM_MODE, DA7280_RTWM_MODE,
                DA7280_ETWM_MODE}

\* the indices of the log at which reg is written
WritesTo(l, reg) == {i \in 1..Len(l) : l[i].op = "w" /\ l[i].reg = reg}

\* the pattern-memory registers: MEM_CTL1, MEM_CTL2 and the snippet memory
PatternMemRegs ==
    {DA7280_MEM_CTL1, DA7280_MEM_CTL2} \cup DA7280_SNP_MEM_0..DA7280_SNP_MEM_99

\* no bus operation of the log failed
FaultFree(l) == \A i \in 1..Len(l) : l[i].ok

\* the writes of the log that clear the operation mode and reached the chip
StopWrites(l) ==
    {i \in WritesTo(l, DA7280_TOP_CTL1) :
        l[i].ok /\ And8(l[i].val, DA7280_OPERATION_MODE_MASK) = 0}

\* the handler read IRQ_EVENT1 with the pattern-fault bit set
ReadPatFault ==
    /\ call.name = "irq_handler"
    /\ Len(log) >= 1
    /\ log[1].ok
    /\ And8(log[1].val, DA7280_E_PAT_FAULT_MASK) # 0

----------------------------------------------------------------------------
(* Claims *)

\* C1: when da7280_irq_handler reads IRQ_EVENT1 with the pattern-fault bit
\* set, every event-clear write to IRQ_EVENT1 comes after a write that
\* clears OPERATION_MODE in TOP_CTL1 and reached the chip; when no such stop
\* write succeeded the handler returns an error and issues no event-clear
\* write.
C1_StopBeforeClear ==
    ReadPatFault =>
        /\ \A j \in WritesTo(log, DA7280_IRQ_EVENT1) :
              \E i \in StopWrites(log) : i < j
        /\ StopWrites(log) = {} =>
              ret # 0 /\ WritesTo(log, DA7280_IRQ_EVENT1) = {}

\* C1 witness: the handler stopped a driven mode on a pattern fault and then
\* cleared the events
C1_Witness ==
    /\ ReadPatFault
    /\ ret = 0
    /\ OpField(pre.regs) \in ActiveModes
    /\ OpField(regs) = 0
    /\ WritesTo(log, DA7280_IRQ_EVENT1) # {}

\* C2: da7280_haptic_mem_update called with a size above 100 fails with
\* -EINVAL and issues no bus operation, whatever the chip's status, lock bit
\* and base address are.
C2_OversizeRejected ==
    (call.name = "haptic_mem_update" /\ call.args[1] > DA7280_SNP_MEM_SIZE)
    => /\ ret = 0 - EINVAL
       /\ log = <<>>
       /\ regs = pre.regs

\* C2 witness: a 101-byte upload is refused on a chip that is unlocked, not
\* driving, and whose base address is the start of the snippet memory
C2_Witness ==
    /\ call.name = "haptic_mem_update"
    /\ call.args[1] = DA7280_SNP_MEM_SIZE + 1
    /\ Len(snp_mem) = DA7280_SNP_MEM_SIZE + 1
    /\ pre.regs[DA7280_IRQ_STATUS1] = 0
    /\ pre.regs[DA7280_MEM_CTL2] = DA7280_PATTERN_MEM_LOCK_MASK
    /\ pre.regs[DA7280_MEM_CTL1] = DA7280_SNP_MEM_0
    /\ ret = 0 - EINVAL
    /\ log = <<>>

\* the platform definitions are outside the documented ranges
ConfigInvalid(u) ==
    \/ u.imax_mA > DA7280_IMAX_LIMIT
    \/ u.impd_mOhm > DA7280_IMPD_MAX
    \/ u.impd_mOhm < DA7280_IMPD_MIN
    \/ /\ u.dev = DA7280_LRA
       /\ (u.freq_Hz > DA7280_MAX_RESONAT_FREQ
           \/ u.freq_Hz < DA7280_MIN_RESONAT_FREQ)

CfgCalls == {"init", "set_user_data", "set_default"}

\* C3: when a configuration call returns an error for a current above the
\* ceiling, an impedance outside its range or (LRA) a frequency outside its
\* range, it has issued no bus operation.
C3_ValidationBeforeBus ==
    (/\ call.name \in CfgCalls
     /\ ConfigInvalid(user)
     /\ ret # 0
     /\ FaultFree(log))
    => log = <<>>

\* C4: da7280_suspend called while suspended, and da7280_resume called while
\* resumed, return success and issue no bus operation; after a suspend
\* (resume) that succeeded, a following suspend (resume) issues none, so a
\* run of successful calls makes at most one read-modify-write of TOP_CTL1.
C4_Idempotent ==
    [][ /\ (call'.name = "suspend" /\ haptic.suspend_state # 0)
              => (ret' = 0 /\ log' = <<>> /\ regs' = regs /\ haptic' = haptic)
        /\ (call'.name = "resume" /\ haptic.suspend_state = 0)
              => (ret' = 0 /\ log' = <<>> /\ regs' = regs /\ haptic' = haptic)
        /\ (call.name = "suspend" /\ ret = 0 /\ call'.name = "suspend")
              => (ret' = 0 /\ log' = <<>>)
        /\ (call.name = "resume" /\ ret = 0 /\ call'.name = "resume")
              => (ret' = 0 /\ log' = <<>>) ]_vars

\* C4 witness: a second suspend, made while the driver was suspended and
\* STANDBY_EN had been cleared by the first
C4_Witness ==
    /\ call.name = "suspend"
    /\ pre.haptic.suspend_state = 1
    /\ StandbyBit(pre.regs) = 0
    /\ ret = 0
    /\ log = <<>>

\* C5: with the mode set to PWM, da7280_haptic_enable followed by a
\* successful da7280_haptic_disable leaves OPERATION_MODE at 0, and neither
\* call writes MEM_CTL1, MEM_CTL2 or the snippet memory.
C5_PwmEnableDisable ==
    [][ (/\ call.name = "haptic_enable"
         /\ haptic.op_mode = DA7280_PWM_MODE
         /\ call'.name = "haptic_disable"
         /\ ret' = 0)
        => /\ OpField(regs') = 0
           /\ \A r \in PatternMemRegs :
                 WritesTo(log, r) = {} /\ WritesTo(log', r) = {} ]_vars

\* C5 witness: a successful disable in PWM mode of a chip that was driven in
\* PWM mode with the sequence started
C5_Witness ==
    /\ call.name = "haptic_disable"
    /\ ret = 0
    /\ haptic.op_mode = DA7280_PWM_MODE
    /\ OpField(pre.regs) = DA7280_PWM_MODE
    /\ SeqStartBit(pre.regs) # 0
    /\ OpField(regs) = 0

\* C6: after da7280_haptic_disable returns success from one of the four
\* drive modes, OPERATION_MODE is 0 and the other bits of TOP_CTL1 are as
\* before the call.
C6_DisableKeepsOtherBits ==
    (/\ call.name = "haptic_disable"
     /\ ret = 0
     /\ OpField(pre.regs) \in ActiveModes)
    => /\ OpField(regs) = 0
       /\ OtherTopCtl1(regs) = OtherTopCtl1(pre.regs)

\* C7: over da7280_set_op_mode, da7280_haptic_enable and
\* da7280_haptic_disable calls, OPERATION_MODE never goes in one step from
\* one drive mode to a different drive mode.
C7_NoDirectTransition ==
    [][ (/\ call'.name \in {"set_op_mode", "haptic_enable", "haptic_disable"}
         /\ OpField(regs) \in ActiveModes
         /\ OpField(regs') \in ActiveModes)
        => OpField(regs') = OpField(regs) ]_vars

\* C8: after a successful da7280_haptic_enable, da7280_haptic_disable or
\* da7280_irq_handler on a fault-free bus, da7280_get_op_mode equals the
\* OPERATION_MODE field of TOP_CTL1.
C8_ModeMirrorsChip ==
    (/\ call.name \in {"haptic_enable", "haptic_disable", "irq_handler"}
     /\ ret = 0
     /\ FaultFree(log))
    => da7280_get_op_mode(haptic) = OpField(regs)

\* C9: when da7280_init returns success the suspend flag is 0 and its last
\* bus operation is a write to TOP_CTL1 with STANDBY_EN set that reached the
\* chip; when da7280_set_user_data fails, init returns an error and its bus
\* operations are those of the configuration alone, none on TOP_CTL1.
C9_InitResumesLast ==
    call.name = "init" =>
        LET cfg == da7280_set_user_data(Ctx(pre.regs, call.faults),
                                        pre.haptic, user)
        IN  /\ ret = 0 =>
                 /\ haptic.suspend_state = 0
                 /\ log # <<>>
                 /\ log[Len(log)].op = "w"
                 /\ log[Len(log)].reg = DA7280_TOP_CTL1
                 /\ log[Len(log)].ok
                 /\ And8(log[Len(log)].val, DA7280_STANDBY_EN_MASK) # 0
                 /\ StandbyBit(regs) # 0
            /\ cfg.ret # 0 =>
                 /\ ret # 0
                 /\ log = cfg.b.log
                 /\ \A i \in 1..Len(log) : log[i].reg # DA7280_TOP_CTL1

\* C9 witness: init succeeded on a driver whose flag said resumed and whose
\* chip had STANDBY_EN clear
C9_Witness ==
    /\ call.name = "init"
    /\ ret = 0
    /\ pre.haptic.suspend_state = 0
    /\ StandbyBit(pre.regs) = 0
    /\ StandbyBit(regs) # 0
    /\ haptic.suspend_state = 0

\* C10: da7280_update_bits returns an error and issues no write when its
\* register read fails, returns an error when its write fails, and returns
\* success otherwise.
C10_UpdateBitsFails ==
    (call.name = "update_bits" /\ Len(log) >= 1)
    => /\ ~log[1].ok => (ret # 0 /\ Len(log) = 1)
       /\ (Len(log) = 2 /\ ~log[2].ok) => ret # 0
       /\ FaultFree(log) => ret = 0

\* C11: a successful da7280_update_bits writes (old AND NOT mask) OR
\* (bits AND mask): the bits outside the mask keep the register's old value,
\* whatever bits the third argument has set outside the mask.
C11_WritesMaskedValue ==
    (/\ call.name = "update_bits"
     /\ ret = 0
     /\ FaultFree(log)
     /\ Len(log) = 2)
    => LET old == pre.regs[call.args[1]]
           mask == call.args[2]
           bits == call.args[3]
       IN  /\ log[2].val = Or8(And8(old, Not8(mask)), And8(bits, mask))
           /\ And8(regs[call.args[1]], Not8(mask)) = And8(old, Not8(mask))

\* the index of the end entry of a script
ScriptEnd(script) ==
    IF \E i \in 1..Len(script) : script[i].reg = SEQ_END
    THEN CHOOSE i \in 1..Len(script) :
             /\ script[i].reg = SEQ_END
             /\ \A j \in 1..(i - 1) : script[j].reg # SEQ_END
    ELSE Len(script) + 1

\* the register steps of a script: its entries before the end entry that
\* are no delay
RegisterSteps(script) ==
    SelectSeq(SubSeq(script, 1, ScriptEnd(script) - 1),
              LAMBDA e : e.reg # DA7280_DELAY)

\* a bus operation that failed is the last one issued, an error is returned
\* exactly when one failed, and without a failure all n operations are issued
HaltsAtFirstFailure(n) ==
    /\ Len(log) <= n
    /\ \A i \in 1..Len(log) : ~log[i].ok => i = Len(log)
    /\ ret # 0 <=> ~FaultFree(log)
    /\ FaultFree(log) => Len(log) = n

\* C12: da7280_run_script and da7280_run_script_mask issue the register
\* steps in list order up to the end entry, nothing for a delay step, and
\* halt with an error at the first bus operation that fails;
\* da7280_reg_bulk_write writes reg, reg+1, ... in ascending order and stops
\* at the first failed write.
C12_RunnersHaltAtFirstFailure ==
    /\ call.name = "run_script" =>
          LET st == RegisterSteps(call.args[1])
          IN  /\ HaltsAtFirstFailure(Len(st))
              /\ \A i \in 1..Len(log) :
                    /\ log[i].op = "w"
                    /\ log[i].reg = st[i].reg
                    /\ log[i].val = st[i].val
    /\ call.name = "run_script_mask" =>
          LET st == RegisterSteps(call.args[1])
          IN  /\ HaltsAtFirstFailure(2 * Len(st))
              /\ \A i \in 1..Len(log) :
                    /\ log[i].op = (IF i % 2 = 1 THEN "r" ELSE "w")
                    /\ log[i].reg = st[(i + 1) \div 2].reg
    /\ call.name = "reg_bulk_write" =>
          /\ HaltsAtFirstFailure(call.args[3])
          /\ \A i \in 1..Len(log) :
                /\ log[i].op = "w"
                /\ log[i].reg = call.args[1] + i - 1
                /\ log[i].val = call.args[2][i]

\* clamp(x, lo, hi)
Clamp(x, lo, hi) == IF x < lo THEN lo ELSE IF x > hi THEN hi ELSE x

\* the IMAX field of the byte da7280_set_imax wrote to ACTUATOR3
ImaxWritten == And8(log[2].val, DA7280_IMAX_MASK)

\* da7280_set_imax accepted the current and wrote ACTUATOR3
ImaxFieldWritten ==
    /\ call.name = "set_imax"
    /\ call.args[1] <= DA7280_IMAX_LIMIT
    /\ Len(log) >= 2
    /\ log[1].ok
    /\ log[2].ok

\* C13: for every current accepted by da7280_set_imax the value written to
\* the IMAX field of ACTUATOR3 is
\* clamp((current_mA*1000 - 28600) / 7200 + 1, 0, 31).
C13_ImaxClamped ==
    ImaxFieldWritten =>
        /\ log[2].op = "w"
        /\ log[2].reg = DA7280_ACTUATOR3
        /\ ImaxWritten =
              Clamp(CDiv(call.args[1] * 1000 - 28600, DA7280_IMAX_STEP) + 1,
                    0, 31)

\* C14: on a bus without fault a configuration call fails exactly when the
\* current is above 252 mA, the impedance below 4000 or above 50000 mOhm, or
\* (LRA) the frequency below 50 or above 300 Hz, and
\* da7280_set_user_data and da7280_set_default then return -EINVAL; the
\* values 252, 4000, 50000, 50 and 300 are accepted.
C14_RangesDecide ==
    (call.name \in CfgCalls /\ FaultFree(log)) =>
        /\ ret # 0 <=> ConfigInvalid(user)
        /\ call.name \in {"set_user_data", "set_default"} =>
              (ret = 0 - EINVAL <=> ConfigInvalid(user))

\* C14 witness: a configuration at the ends of all three ranges is accepted
C14_Witness ==
    /\ call.name = "set_user_data"
    /\ user.dev = DA7280_LRA
    /\ user.imax_mA = DA7280_IMAX_LIMIT
    /\ user.impd_mOhm = DA7280_IMPD_MIN
    /\ user.freq_Hz = DA7280_MAX_RESONAT_FREQ
    /\ FaultFree(log)
    /\ log # <<>>
    /\ ret = 0

\* da7280_set_resonant_freq ran on a frequency within the range and no bus
\* operation failed
FreqProgrammed ==
    /\ call.name = "set_resonant_freq"
    /\ call.args[1] \in DA7280_MIN_RESONAT_FREQ..DA7280_MAX_RESONAT_FREQ
    /\ FaultFree(log)

\* C15: for every frequency f in 50..300 da7280_set_resonant_freq writes
\* (period >> 7) AND 0xFF to FRQ_LRA_PER_H and then period AND 0x7F to
\* FRQ_LRA_PER_L, where period = 1000000000 / (f * 1333), and
\* high * 128 + low = period.
C15_PeriodSplit ==
    FreqProgrammed =>
        LET period == 1000000000 \div (call.args[1] * 1333)
        IN  /\ ret = 0
            /\ Len(log) = 2
            /\ log[1].op = "w" /\ log[1].reg = DA7280_FRQ_LRA_PER_H
            /\ log[1].val = And8(U8(period \div 128), 255)
            /\ log[2].op = "w" /\ log[2].reg = DA7280_FRQ_LRA_PER_L
            /\ log[2].val = And8(U8(period), 127)
            /\ log[1].val * 128 + log[2].val = period
            /\ regs[DA7280_FRQ_LRA_PER_H] * 128 + regs[DA7280_FRQ_LRA_PER_L]
                  = period

\* C15 witness: 50 Hz, the longest period (15003), is programmed as 117 and 27
C15_Witness ==
    /\ FreqProgrammed
    /\ call.args[1] = DA7280_MIN_RESONAT_FREQ
    /\ regs[DA7280_FRQ_LRA_PER_H] = 117
    /\ regs[DA7280_FRQ_LRA_PER_L] = 27
    /\ ret = 0

\* a configuration call ran for an LRA with a resonant frequency of 180 Hz
Configured180 ==
    /\ call.name \in CfgCalls
    /\ user.dev = DA7280_LRA
    /\ user.freq_Hz = 180

\* C16 as stated: for a resonant frequency of 180 Hz configuration writes
\* 0x1A to FRQ_LRA_PER_H.
C16_High1A ==
    Configured180 =>
        /\ WritesTo(log, DA7280_FRQ_LRA_PER_H) # {}
        /\ \A i \in WritesTo(log, DA7280_FRQ_LRA_PER_H) : log[i].val = 26

\* C16 amended: for a resonant frequency of 180 Hz configuration writes 0x20
\* to FRQ_LRA_PER_H, the bits 7 and up of the period 1000000000 / (180 * 1333)
\* = 4167.
C16_High20 ==
    Configured180 =>
        /\ WritesTo(log, DA7280_FRQ_LRA_PER_H) # {}
        /\ \A i \in WritesTo(log, DA7280_FRQ_LRA_PER_H) : log[i].val = 32

\* C16 witness: a configuration for 180 Hz went through and left 0x20 and
\* 0x47 in the period registers
C16_Witness ==
    /\ Configured180
    /\ call.name = "set_user_data"
    /\ ret = 0
    /\ regs[DA7280_FRQ_LRA_PER_H] = 32
    /\ regs[DA7280_FRQ_LRA_PER_L] = 71

\* da7280_set_imax ran to its end on a bus without fault
FactorWritten ==
    /\ call.name = "set_imax"
    /\ call.args[1] <= DA7280_IMAX_LIMIT
    /\ user.impd_mOhm \in DA7280_IMPD_MIN..DA7280_IMPD_MAX
    /\ FaultFree(log)
    /\ Len(log) = 4

\* C17: the factor da7280_set_imax writes is
\* impedance_mOhm * 1000 * (current_code + 4) / 1610400 with current_code the
\* code written to the IMAX field of ACTUATOR3; its low byte goes to
\* CALIB_V2I_L, its high byte to CALIB_V2I_H, the factor is below 2^16 and
\* the product below 2^31.
C17_FactorFromWrittenCode ==
    FactorWritten =>
        LET product == user.impd_mOhm * 1000 * (ImaxWritten + 4)
            factor  == product \div 1610400
        IN  /\ product <= 2147483647
            /\ factor < 65536
            /\ log[3].op = "w" /\ log[3].reg = DA7280_CALIB_V2I_L
            /\ log[3].val = factor % 256
            /\ log[4].op = "w" /\ log[4].reg = DA7280_CALIB_V2I_H
            /\ log[4].val = factor \div 256

\* C18: da7280_set_volt_rating issues exactly one bus operation, a write to
\* the target register of min(voltage_mV * 1000 / 23400 + 1, 255) for
\* voltage_mV < 6000 and of 0x6B for voltage_mV >= 6000; it returns 0 when
\* the write went through and the bus error when it failed, never -EINVAL.
C18_VoltRating ==
    call.name = "set_volt_rating" =>
        LET reg  == call.args[1]
            mV   == call.args[2]
            code == (mV * 1000) \div 23400 + 1
        IN  /\ Len(log) = 1
            /\ log[1].op = "w"
            /\ log[1].reg = reg
            /\ log[1].val = IF mV < 6000
                            THEN (IF code < 255 THEN code ELSE 255)
                            ELSE 107
            /\ ret # 0 - EINVAL
            /\ ret = (IF log[1].ok THEN 0 ELSE I2C_ERR)

\* C18 witness: 5999 mV, whose code 257 is limited to 255, written to
\* ACTUATOR2
C18_Witness ==
    /\ call.name = "set_volt_rating"
    /\ call.args = <<DA7280_ACTUATOR2, DA7280_VOLT_RATE_MAX - 1>>
    /\ regs[DA7280_ACTUATOR2] = 255
    /\ ret = 0

\* the flag of TOP_CFG1 under mask m in the byte written by the bus
\* operation i of the call
FlagWritten(i, m) == IF And8(log[i].val, m) # 0 THEN 1 ELSE 0

\* the flag as the platform definitions request it
Requested(x) == IF x # 0 THEN 1 ELSE 0

\* C19: when USER_OP_MODE is RTWM or ETWM, every write of TOP_CFG1 by a
\* configuration call carries BEMF_SENSE_EN = 0 whatever USER_BEMF_SENS_EN
\* is; when it is Inactive, DRO or PWM the bit written equals
\* USER_BEMF_SENS_EN.
C19_BemfForcedOff ==
    call.name \in CfgCalls =>
        \A i \in WritesTo(log, DA7280_TOP_CFG1) :
            FlagWritten(i, DA7280_BEMF_SENSE_EN_MASK) =
                IF user.op_mode \in {DA7280_RTWM_MODE, DA7280_ETWM_MODE}
                THEN 0
                ELSE Requested(user.bemf_sense_en)

\* C19 witness: back-EMF sensing requested in ETWM mode on a chip that had
\* the bit set; the configuration went through and the bit is clear
C19_Witness ==
    /\ call.name = "set_user_data"
    /\ user.op_mode = DA7280_ETWM_MODE
    /\ user.bemf_sense_en = 1
    /\ And8(pre.regs[DA7280_TOP_CFG1], DA7280_BEMF_SENSE_EN_MASK) # 0
    /\ WritesTo(log, DA7280_TOP_CFG1) # {}
    /\ And8(regs[DA7280_TOP_CFG1], DA7280_BEMF_SENSE_EN_MASK) = 0
    /\ ret = 0

\* the writes to reg that reached the chip
OkWritesTo(l, reg) == {i \in WritesTo(l, reg) : l[i].ok}

\* the two bits da7280_set_user_data sets in TOP_CFG4 for an ERM coin
CalibFreezeBits ==
    DA7280_TST_CALIB_IMPEDANCE_DIS_MASK + DA7280_V2I_FACTOR_FREEZE_MASK

\* C20: for an ERM coin a configuration call writes TOP_INT_CFG1 with
\* BEMF_FAULT_LIM = 0 and TOP_CFG4 with TST_CALIB_IMPEDANCE_DIS and
\* V2I_FACTOR_FREEZE set before it writes TOP_CFG1, and writes TOP_CFG1 with
\* ACCELERATION_EN, RAPID_STOP_EN and AMP_PID_EN = 0 whatever was requested;
\* for an LRA and an ERM bar it writes neither TOP_INT_CFG1 nor TOP_CFG4 and
\* the three bits written to TOP_CFG1 are the requested ones.
C20_ErmCoinForced ==
    call.name \in CfgCalls =>
        IF user.dev = DA7280_ERM_COIN
        THEN /\ \A i \in WritesTo(log, DA7280_TOP_INT_CFG1) :
                   And8(log[i].val, DA7280_BEMF_FAULT_LIM_MASK) = 0
             /\ \A i \in WritesTo(log, DA7280_TOP_CFG4) :
                   And8(log[i].val, CalibFreezeBits) = CalibFreezeBits
             /\ \A i \in WritesTo(log, DA7280_TOP_CFG1) :
                   /\ FlagWritten(i, DA7280_ACCELERATION_EN_MASK) = 0
                   /\ FlagWritten(i, DA7280_RAPID_STOP_EN_MASK) = 0
                   /\ FlagWritten(i, DA7280_AMP_PID_EN_MASK) = 0
                   /\ \E j \in OkWritesTo(log, DA7280_TOP_INT_CFG1),
                         k \in OkWritesTo(log, DA7280_TOP_CFG4) :
                         j < k /\ k < i
             /\ ret = 0 =>
                   /\ And8(regs[DA7280_TOP_INT_CFG1],
                           DA7280_BEMF_FAULT_LIM_MASK) = 0
                   /\ And8(regs[DA7280_TOP_CFG4], CalibFreezeBits)
                         = CalibFreezeBits
        ELSE /\ WritesTo(log, DA7280_TOP_INT_CFG1) = {}
             /\ WritesTo(log, DA7280_TOP_CFG4) = {}
             /\ regs[DA7280_TOP_INT_CFG1] = pre.regs[DA7280_TOP_INT_CFG1]
             /\ regs[DA7280_TOP_CFG4] = pre.regs[DA7280_TOP_CFG4]
             /\ \A i \in WritesTo(log, DA7280_TOP_CFG1) :
                   /\ FlagWritten(i, DA7280_ACCELERATION_EN_MASK)
                         = Requested(user.acc_en)
                   /\ FlagWritten(i, DA7280_RAPID_STOP_EN_MASK)
                         = Requested(user.rapid_stop_en)
                   /\ FlagWritten(i, DA7280_AMP_PID_EN_MASK)
                         = Requested(user.amp_pid_en)

\* C20 witness: an ERM coin configured with all three flags requested, on a
\* chip whose fault limit was 3 and whose TOP_CFG1 had the three flags set
C20_Witness ==
    /\ call.name = "set_user_data"
    /\ user.dev = DA7280_ERM_COIN
    /\ user.acc_en = 1 /\ user.rapid_stop_en = 1 /\ user.amp_pid_en = 1
    /\ ret = 0
    /\ And8(regs[DA7280_TOP_CFG1],
            DA7280_ACCELERATION_EN_MASK + DA7280_RAPID_STOP_EN_MASK
                + DA7280_AMP_PID_EN_MASK) = 0
    /\ And8(regs[DA7280_TOP_CFG4], CalibFreezeBits) = CalibFreezeBits
    /\ And8(regs[DA7280_TOP_INT_CFG1], DA7280_BEMF_FAULT_LIM_MASK) = 0
    /\ pre.regs[DA7280_TOP_INT_CFG1] = 255
    /\ pre.regs[DA7280_TOP_CFG1] = 255

\* the operation and register of every entry of a log
OpsOf(l) == [i \in 1..Len(l) |-> <<l[i].op, l[i].reg>>]

\* the bus operations of the actuator-specific start of da7280_set_user_data
DevTypeOps(dev) ==
    IF dev = DA7280_LRA
    THEN << <<"w", DA7280_FRQ_LRA_PER_H>>, <<"w", DA7280_FRQ_LRA_PER_L>> >>
    ELSE IF dev = DA7280_ERM_COIN
    THEN << <<"r", DA7280_TOP_INT_CFG1>>, <<"w", DA7280_TOP_INT_CFG1>>,
            <<"r", DA7280_TOP_CFG4>>, <<"w", DA7280_TOP_CFG4>> >>
    ELSE << >>

\* the bus operations of da7280_set_user_data from TOP_CFG1 on, in the order
\* of the source
ConfigOps ==
    << <<"r", DA7280_TOP_CFG1>>, <<"w", DA7280_TOP_CFG1>>,
       <<"r", DA7280_ACTUATOR3>>, <<"w", DA7280_ACTUATOR3>>,
       <<"w", DA7280_CALIB_V2I_L>>, <<"w", DA7280_CALIB_V2I_H>>,
       <<"w", DA7280_ACTUATOR1>>, <<"w", DA7280_ACTUATOR2>>,
       <<"w", DA7280_IRQ_EVENT1>>, <<"w", DA7280_TOP_CTL2>>,
       <<"w", DA7280_SEQ_CTL2>>, <<"w", DA7280_GPI_0_CTL>>,
       <<"w", DA7280_GPI_1_CTL>>, <<"w", DA7280_GPI_2_CTL>> >>

\* C21: a successful da7280_set_user_data or da7280_set_default issues,
\* after the actuator-specific start, one read-modify-write of TOP_CFG1, then
\* ACTUATOR3, CALIB_V2I_L/H, then ACTUATOR1, ACTUATOR2, then the bring-up
\* script (0xFF to IRQ_EVENT1, TOP_CTL2, SEQ_CTL2, the three GPI registers);
\* and a bus operation that fails is the last one of the call.
C21_ConfigOrder ==
    call.name \in {"set_user_data", "set_default"} =>
        /\ ret = 0 =>
              /\ OpsOf(log) = DevTypeOps(user.dev) \o ConfigOps
              /\ Cardinality(WritesTo(log, DA7280_TOP_CFG1)) = 1
              /\ \A i \in WritesTo(log, DA7280_IRQ_EVENT1) : log[i].val = 255
        /\ \A i \in 1..Len(log) : ~log[i].ok => i = Len(log)

\* the modes in which da7280_haptic_enable starts the sequence
StartModes == {DA7280_PWM_MODE, DA7280_RTWM_MODE}

\* C22: every bus operation of da7280_haptic_enable is on TOP_CTL1; its
\* first write carries haptic.op_mode in OPERATION_MODE and, when the read
\* before it went through, leaves the other bits as they were; a second
\* write follows only in PWM and RTWM mode and only after the first reached
\* the chip, and it sets SEQ_START; a successful call makes exactly one write
\* in the other modes and exactly two in PWM and RTWM.
C22_ModeThenStart ==
    call.name = "haptic_enable" =>
        LET w == WritesTo(log, DA7280_TOP_CTL1)
        IN  /\ \A i \in 1..Len(log) : log[i].reg = DA7280_TOP_CTL1
            /\ Len(log) >= 2 =>
                  /\ log[1].op = "r" /\ log[2].op = "w"
                  /\ And8(log[2].val, DA7280_OPERATION_MODE_MASK)
                        = haptic.op_mode
                  /\ log[1].ok =>
                        And8(log[2].val, Not8(DA7280_OPERATION_MODE_MASK))
                            = OtherTopCtl1(pre.regs)
            /\ Cardinality(w) <= 2
            /\ Cardinality(w) = 2 =>
                  /\ haptic.op_mode \in StartModes
                  /\ log[2].ok
                  /\ log[4].op = "w"
                  /\ And8(log[4].val, DA7280_SEQ_START_MASK) # 0
            /\ ret = 0 =>
                  Cardinality(w) = IF haptic.op_mode \in StartModes
                                   THEN 2 ELSE 1

\* C22 witness: RTWM mode enabled on an idle chip: the mode is written, then
\* SEQ_START, and TOP_CTL1 holds both
C22_Witness ==
    /\ call.name = "haptic_enable"
    /\ haptic.op_mode = DA7280_RTWM_MODE
    /\ OpField(pre.regs) = 0
    /\ SeqStartBit(pre.regs) = 0
    /\ FaultFree(log)
    /\ Len(log) = 4
    /\ ret = 0
    /\ OpField(regs) = DA7280_RTWM_MODE
    /\ SeqStartBit(regs) # 0

\* the chip reported a warning / held the pattern memory locked before the
\* call
WarningSet == And8(pre.regs[DA7280_IRQ_STATUS1], DA7280_STA_WARNING_MASK) # 0
MemLocked ==
    And8(pre.regs[DA7280_MEM_CTL2], DA7280_PATTERN_MEM_LOCK_MASK) = 0

\* the writes of the log
Writes(l) == {i \in 1..Len(l) : l[i].op = "w"}

\* C23: da7280_haptic_mem_update tests the size, then the warning, then the
\* lock, before any write: with the size in range and the status read
\* through, a set WARNING bit gives -EBUSY; otherwise, with MEM_CTL2 read
\* through, a lock bit of 0 gives -EACCES; in both cases no write is issued
\* and no register changes; an oversize call fails with -EINVAL even when a
\* warning is set, and any write is preceded by the three reads.
C23_PreconditionsBeforeWrites ==
    call.name = "haptic_mem_update" =>
        /\ (call.args[1] > DA7280_SNP_MEM_SIZE) => ret = 0 - EINVAL
        /\ (call.args[1] <= DA7280_SNP_MEM_SIZE /\ 1 \notin call.faults) =>
              /\ log[1].op = "r" /\ log[1].reg = DA7280_IRQ_STATUS1
              /\ WarningSet =>
                    (ret = 0 - EBUSY /\ Len(log) = 1 /\ regs = pre.regs)
              /\ (~WarningSet /\ 2 \notin call.faults) =>
                    /\ log[2].op = "r" /\ log[2].reg = DA7280_MEM_CTL2
                    /\ MemLocked =>
                          /\ ret = 0 - EACCES
                          /\ Len(log) = 2
                          /\ regs = pre.regs
        /\ Writes(log) # {} =>
              /\ ~WarningSet /\ ~MemLocked
              /\ \A i \in Writes(log) : i > 3
              /\ log[3].op = "r" /\ log[3].reg = DA7280_MEM_CTL1

\* C23 witness: an upload of 4 bytes to a chip that reports a warning and
\* whose memory is locked is refused as busy after one read
C23_Witness ==
    /\ call.name = "haptic_mem_update"
    /\ call.args[1] = 4
    /\ WarningSet
    /\ MemLocked
    /\ ret = 0 - EBUSY
    /\ Len(log) = 1
    /\ log[1].ok

\* da7280_haptic_mem_update passed its three tests and no bus operation
\* failed
UploadRan ==
    /\ call.name = "haptic_mem_update"
    /\ call.args[1] <= DA7280_SNP_MEM_SIZE
    /\ ~WarningSet
    /\ ~MemLocked
    /\ FaultFree(log)

\* after its three reads the call wrote count bytes (none when count is not
\* positive) at the addresses base, base + 1, ...
UploadWrote(count) ==
    LET base == pre.regs[DA7280_MEM_CTL1]
        n    == IF count > 0 THEN count ELSE 0
    IN  /\ Len(log) = 3 + n
        /\ \A k \in 1..n :
              log[3 + k].op = "w" /\ log[3 + k].reg = base + k - 1

\* C24 as stated: the upload writes exactly 100 - base + 1 bytes from the
\* base address read from MEM_CTL1.
C24_Count100 ==
    UploadRan =>
        UploadWrote(DA7280_SNP_MEM_SIZE - pre.regs[DA7280_MEM_CTL1] + 1)

\* C24 amended: the upload writes at consecutive ascending addresses from
\* the base address read from MEM_CTL1, exactly 0xE7 - base + 1 bytes, so
\* that the last byte written lands on SNP_MEM_99 (0xE7).
C24_CountToEnd ==
    UploadRan =>
        /\ UploadWrote(DA7280_SNP_MEM_MAX - pre.regs[DA7280_MEM_CTL1] + 1)
        /\ ret = 0
        /\ Writes(log) # {} => log[Len(log)].reg = 231

\* C24 witness: with the base at 0xE4 the upload writes 0xE4..0xE7
C24_Witness ==
    /\ UploadRan
    /\ pre.regs[DA7280_MEM_CTL1] = 228
    /\ ret = 0
    /\ Len(log) = 7
    /\ log[4].reg = 228
    /\ log[7].reg = DA7280_SNP_MEM_99

\* C25: when the read of MEM_CTL1 or the read of one of the size memory
\* bytes fails, da7280_haptic_mem_read returns an error.
C25_ReadFailureReported ==
    (call.name = "haptic_mem_read" /\ ~FaultFree(log)) => ret # 0

\* a successful upload with the warning clear and the memory unlocked is
\* followed by a read of as many bytes, the base address in MEM_CTL1 being
\* the same, with no bus failure in either call
RoundTrip ==
    /\ call.name = "haptic_mem_update"
    /\ ~WarningSet /\ ~MemLocked
    /\ FaultFree(log)
    /\ ret = 0
    /\ call'.name = "haptic_mem_read"
    /\ call'.args = call.args
    /\ FaultFree(log')
    /\ regs[DA7280_MEM_CTL1] = pre.regs[DA7280_MEM_CTL1]

\* C26: for every buffer of n <= 100 bytes, with no warning, the memory
\* unlocked and no bus failure, da7280_haptic_mem_update of the buffer
\* followed by da7280_haptic_mem_read of n bytes returns success and the
\* bytes of the buffer.
C26_RoundTrip ==
    [][ RoundTrip => (ret' = 0 /\ snp_mem' = snp_mem) ]_vars

\* the three event registers, in ascending order
EventRegs ==
    <<DA7280_IRQ_EVENT1, DA7280_IRQ_EVENT_WARNING_DIAG,
      DA7280_IRQ_EVENT_PAT_DIAG>>

\* the reads of the log
Reads(l) == {i \in 1..Len(l) : l[i].op = "r"}

\* C27: da7280_irq_handler starts with the reads of IRQ_EVENT1,
\* IRQ_EVENT_WARNING_DIAG and IRQ_EVENT_PAT_DIAG in this order and reads no
\* event register again; a read of them that fails is the last bus operation
\* and the call returns an error; when all three are read as zero the call
\* returns 0 after the three reads, with no write and no register changed.
C27_ThreeReadsOnePass ==
    call.name = "irq_handler" =>
        /\ Len(log) >= 1
        /\ \A k \in 1..3 : k <= Len(log) =>
              /\ log[k].op = "r" /\ log[k].reg = EventRegs[k]
              /\ ~log[k].ok => (Len(log) = k /\ ret < 0)
        /\ \A i \in Reads(log) :
              i > 3 => log[i].reg \notin {EventRegs[k] : k \in 1..3}
        /\ Writes(log) # {} => \A k \in 1..3 : log[k].ok
        /\ (/\ \A k \in 1..3 : pre.regs[EventRegs[k]] = 0
            /\ call.faults \cap 1..3 = {})
           => (ret = 0 /\ Len(log) = 3 /\ regs = pre.regs)

\* C27 witness: the handler is called on a shared interrupt with no event
\* pending
C27_Witness ==
    /\ call.name = "irq_handler"
    /\ \A k \in 1..3 : pre.regs[EventRegs[k]] = 0
    /\ FaultFree(log)
    /\ Len(log) = 3
    /\ ret = 0

\* the positions of the bits set in a byte
BitsOf(x) == {n \in 0..7 : And8(x, Pow2(n)) # 0}

\* the bits written as 1 to reg during the call
WrittenBits(reg) == UNION {BitsOf(log[i].val) : i \in WritesTo(log, reg)}

\* C28: after a successful da7280_irq_handler the bits written as 1 to each
\* of the three event registers are exactly the bits read as 1 from it.
C28_ClearsWhatWasRead ==
    (call.name = "irq_handler" /\ ret = 0 /\ Len(log) >= 3) =>
        \A k \in 1..3 : WrittenBits(EventRegs[k]) = BitsOf(log[k].val)

\* C29: a configuration call that ends on a failed bus operation returns
\* -EIO and never -EINVAL, and a configuration call that is refused for its
\* values on a fault-free bus returns -EINVAL and never -EIO.
C29_ErrorKind ==
    call.name \in CfgCalls =>
        /\ (log # <<>> /\ ~log[Len(log)].ok) => ret = 0 - EIO
        /\ (FaultFree(log) /\ ConfigInvalid(user)) => ret = 0 - EINVAL

\* the two fields of SEQ_CTL2
SeqIdField(r) == And8(r[DA7280_SEQ_CTL2], DA7280_PS_SEQ_ID_MASK)
SeqLoopField(r) == And8(r[DA7280_SEQ_CTL2], DA7280_PS_SEQ_LOOP_MASK)

\* C30: da7280_set_seq_id and da7280_set_seq_loop refuse every value above
\* 15 with -EINVAL and no bus operation, and never refuse a value of 0..15
\* with -EINVAL; a successful da7280_set_seq_id leaves PS_SEQ_ID = seq_id and
\* PS_SEQ_LOOP as before, a successful da7280_set_seq_loop leaves
\* PS_SEQ_LOOP = seq_loop and PS_SEQ_ID as before, and no other register
\* changes.
C30_SeqFields ==
    call.name \in {"set_seq_id", "set_seq_loop"} =>
        /\ call.args[1] > 15 => (ret = 0 - EINVAL /\ log = <<>>)
        /\ call.args[1] <= 15 => (ret # 0 - EINVAL /\ log # <<>>)
        /\ (call.args[1] <= 15 /\ ret = 0) =>
              /\ \A a \in Byte \ {DA7280_SEQ_CTL2} : regs[a] = pre.regs[a]
              /\ call.name = "set_seq_id" =>
                    /\ SeqIdField(regs) = call.args[1]
                    /\ SeqLoopField(regs) = SeqLoopField(pre.regs)
              /\ call.name = "set_seq_loop" =>
                    /\ SeqLoopField(regs) = 16 * call.args[1]
                    /\ SeqIdField(regs) = SeqIdField(pre.regs)

\* every register but TOP_CTL1 is as before the call
OnlyTopCtl1 == \A a \in Byte \ {DA7280_TOP_CTL1} : regs[a] = pre.regs[a]

\* C31: on a bus without fault da7280_suspend and da7280_resume change at
\* most the STANDBY_EN bit of TOP_CTL1, so OPERATION_MODE and SEQ_START stay,
\* and leave haptic.op_mode as it was; da7280_haptic_enable and
\* da7280_haptic_disable leave STANDBY_EN and haptic.suspend_state as they
\* were.
C31_StandbyIndependent ==
    FaultFree(log) =>
        /\ call.name \in {"suspend", "resume"} =>
              /\ And8(regs[DA7280_TOP_CTL1], Not8(DA7280_STANDBY_EN_MASK))
                    = And8(pre.regs[DA7280_TOP_CTL1],
                           Not8(DA7280_STANDBY_EN_MASK))
              /\ OnlyTopCtl1
              /\ haptic.op_mode = pre.haptic.op_mode
        /\ call.name \in {"haptic_enable", "haptic_disable"} =>
              /\ StandbyBit(regs) = StandbyBit(pre.regs)
              /\ haptic.suspend_state = pre.haptic.suspend_state
              /\ OnlyTopCtl1

\* C31 witness: a suspend while the chip plays in RTWM mode clears
\* STANDBY_EN and leaves the mode and SEQ_START in place
C31_Witness ==
    /\ call.name = "suspend"
    /\ FaultFree(log)
    /\ ret = 0
    /\ StandbyBit(pre.regs) # 0
    /\ StandbyBit(regs) = 0
    /\ OpField(regs) = DA7280_RTWM_MODE
    /\ SeqStartBit(regs) # 0
    /\ haptic.op_mode = DA7280_RTWM_MODE

\* C32: after a successful da7280_init, da7280_set_user_data or
\* da7280_set_default, also one made while a drive mode is active, the
\* OPERATION_MODE field of TOP_CTL1 is 0.
C32_InactiveAfterConfig ==
    (call.name \in CfgCalls /\ ret = 0) => OpField(regs) = 0

\* C33: when da7280_irq_handler ran between the read and the write of the
\* update of TOP_CTL1 made by da7280_suspend, da7280_resume or
\* da7280_haptic_disable, the final TOP_CTL1 is what one of the two serial
\* orders of the handler and the call gives; in particular OPERATION_MODE is
\* 0 when the handler stopped the drive on a pattern fault.
C33_AtomicAgainstIrq ==
    (/\ call.name \in {"suspend", "resume", "haptic_disable"}
     /\ Len(log) > 2)
    => LET b0 == Ctx(pre.regs, {})
           Main(b) ==
               IF call.name = "suspend" THEN da7280_suspend(b, pre.haptic)
               ELSE IF call.name = "resume"
               THEN da7280_resume(b, pre.haptic)
               ELSE da7280_haptic_disable(b, pre.haptic)
           Irq(b) == da7280_irq_handler(b, pre.haptic)
           irqThenMain == Main(Ctx(Irq(b0).b.regs, {})).b.regs
           mainThenIrq == Irq(Ctx(Main(b0).b.regs, {})).b.regs
       IN  /\ regs[DA7280_TOP_CTL1] \in {irqThenMain[DA7280_TOP_CTL1],
                                         mainThenIrq[DA7280_TOP_CTL1]}
           /\ StopWrites(log) # {} => OpField(regs) = 0

\* C34: a successful da7280_init leaves the suspend flag false and STANDBY_EN
\* set; from a state where the flag is true exactly when STANDBY_EN is 0, a
\* da7280_suspend, da7280_resume, da7280_haptic_enable or
\* da7280_haptic_disable in which only bus writes fail keeps it so, and a
\* suspend or resume with a failed write returns an error and leaves the
\* flag.
C34_FlagMatchesStandby ==
    [][/\ (call'.name = "init" /\ ret' = 0)
          => ((haptic'.suspend_state # 0) <=> (StandbyBit(regs') = 0))
       /\ (/\ (haptic.suspend_state # 0) <=> (StandbyBit(regs) = 0)
           /\ call'.name \in {"suspend", "resume", "haptic_enable",
                              "haptic_disable"}
           /\ Failed(log') \subseteq Writes(log'))
          => /\ (haptic'.suspend_state # 0) <=> (StandbyBit(regs') = 0)
             /\ (call'.name \in {"suspend", "resume"} /\ Failed(log') # {})
                => /\ ret' # 0
                   /\ haptic'.suspend_state = haptic.suspend_state]_vars

C34_Witness ==
    /\ call.name = "suspend"
    /\ Failed(log) # {}
    /\ Failed(log) \subseteq Writes(log)
    /\ ret # 0
    /\ pre.haptic.suspend_state = 0
    /\ haptic.suspend_state = 0
    /\ StandbyBit(pre.regs) # 0
    /\ StandbyBit(regs) # 0

\* C35: da7280_haptic_mem_update with a size of at most 100 writes at most
\* size bytes to the chip, whatever base address MEM_CTL1 holds.
C35_AtMostSize ==
    (call.name = "haptic_mem_update" /\ call.args[1] <= DA7280_SNP_MEM_SIZE)
    => Cardinality(Writes(log)) <= call.args[1]

\* C36: with a size of at most 100, every address da7280_haptic_mem_update
\* writes, and every address da7280_haptic_mem_read reads after its read of
\* MEM_CTL1, lies in SNP_MEM_0..SNP_MEM_99 (0x84..0xE7).
C36_OnlySnippetMemory ==
    /\ (call.name = "haptic_mem_update"
        /\ call.args[1] <= DA7280_SNP_MEM_SIZE)
       => \A i \in Writes(log) :
             log[i].reg \in DA7280_SNP_MEM_0..DA7280_SNP_MEM_99
    /\ (call.name = "haptic_mem_read"
        /\ call.args[1] <= DA7280_SNP_MEM_SIZE)
       => \A i \in 2..Len(log) :
             log[i].reg \in DA7280_SNP_MEM_0..DA7280_SNP_MEM_99

\* C37: da7280_set_gpi_seq_id for GPI 0, 1 or 2 on a fault-free bus rejects
\* exactly the ids above 15, with -EINVAL and no bus operation; for an id in
\* 0..15 it returns 0, puts the id in bits 6:3 of GPI_n_CTL and changes no
\* other bit of it and no other register.
C37_GpiSeqIdRange ==
    (call.name = "set_gpi_seq_id" /\ call.args[1] \in 0..2 /\ FaultFree(log))
    => LET reg == DA7280_GPI_0_CTL + call.args[1]
           val == call.args[2]
       IN  IF val > 15
           THEN ret = 0 - EINVAL /\ log = <<>> /\ regs = pre.regs
           ELSE /\ ret = 0
                /\ And8(regs[reg], DA7280_GPI0_SEQUENCE_ID_MASK)
                       = Shl8(val, DA7280_GPI0_SEQUENCE_ID_SHIFT)
                /\ And8(regs[reg], Not8(DA7280_GPI0_SEQUENCE_ID_MASK))
                       = And8(pre.regs[reg],
                              Not8(DA7280_GPI0_SEQUENCE_ID_MASK))
                /\ \A a \in Byte \ {reg} : regs[a] = pre.regs[a]

\* C38: whatever gpi_num is, da7280_set_gpi_seq_id, da7280_set_gpi_mod and
\* da7280_set_gpi_pol write no register other than GPI_0_CTL, GPI_1_CTL and
\* GPI_2_CTL, and change none.
C38_OnlyGpiRegisters ==
    call.name \in {"set_gpi_seq_id", "set_gpi_mod", "set_gpi_pol"}
    => /\ \A i \in Writes(log) :
             log[i].reg \in DA7280_GPI_0_CTL..DA7280_GPI_2_CTL
       /\ \A a \in Byte \ (DA7280_GPI_0_CTL..DA7280_GPI_2_CTL) :
             regs[a] = pre.regs[a]

\* C39: da7280_set_override_val on a fault-free bus writes min(val, 127) to
\* TOP_CTL2 when acceleration is enabled and val itself when it is disabled,
\* for every actuator type.
C39_OverrideByAcceleration ==
    (call.name = "set_override_val" /\ FaultFree(log))
    => /\ ret = 0
       /\ Len(log) = 1
       /\ log[1].op = "w"
       /\ log[1].reg = DA7280_TOP_CTL2
       /\ log[1].val = IF pre.haptic.acc_en # 0 /\ call.args[1] > 127
                       THEN 127 ELSE call.args[1]

\* C40: after a da7280_set_user_data that returned 0 on a fault-free bus,
\* GPI_n_CTL (n = 0, 1, 2) holds the sequence id, mode and polarity
\* configured for GPI n.
C40_OwnGpiValues ==
    (call.name = "set_user_data" /\ FaultFree(log) /\ ret = 0)
    => \A n \in 0..2 :
          regs[DA7280_GPI_0_CTL + n]
              = Or8(Or8(Shl8(user.gpi[n + 1].seq_id,
                             DA7280_GPI0_SEQUENCE_ID_SHIFT),
                        Shl8(user.gpi[n + 1].mod, DA7280_GPI0_MODE_SHIFT)),
                    Shl8(user.gpi[n + 1].pol, DA7280_GPI0_POLARITY_SHIFT))

====
